---- MODULE Spec2Model ----
(***************************************************************************)
(* Verification model of the hash-table containers of the repository       *)
(*   - DoubleKeyTable      (src/double_key_table.py)                       *)
(*   - InfiniteHashTable   (src/infinite_hash_table.py)                    *)
(*   - ComputerManager     (src/computer_manager.py)                       *)
(* and of the routes and the viruses that follow them:                     *)
(*   - Route, RouteSeries, RouteSplit (src/route.py)                       *)
(*   - VirusType and its subclasses   (src/virus.py)                       *)
(* Strings are sequences of character codes (ord), arrays are sequences    *)
(* indexed from 1, so the Python slot p is element p+1.  An operation that *)
(* can raise returns a record whose field exc names the exception.         *)
(***************************************************************************)
EXTENDS Integers, Sequences, FiniteSets, Bags, TLC

VARIABLES dkt, dkt_abs, dkt_deleted, dkt_hist,
          iht, iht_abs, iht_deleted, iht_last,
          computers, cm_stored,
          co_computers, co_rank_list, co_rank, co_last,
          route, virus, temp_store, temp_stack, fp_pc, fp_last,
          heap, rt_result

dkt_vars == <<dkt, dkt_abs, dkt_deleted, dkt_hist>>

iht_vars == <<iht, iht_abs, iht_deleted, iht_last>>

cm_vars == <<computers, cm_stored>>

co_vars == <<co_computers, co_rank_list, co_rank, co_last>>

fp_vars == <<route, virus, temp_store, temp_stack, fp_pc, fp_last>>

rt_vars == <<heap, rt_result>>

vars == <<dkt_vars, iht_vars, cm_vars, co_vars, fp_vars, rt_vars>>

\* ------------------------------------------------------------------------
\* Common values
\* ------------------------------------------------------------------------
NoneVal == [kind |-> "None"]

NoExc == "none"

\* ------------------------------------------------------------------------
\* The polynomial hash of DoubleKeyTable.hash1 / hash2
\* ------------------------------------------------------------------------
HASH_BASE == 31

HASH_SEED == 31417

RECURSIVE hash_loop(_, _, _, _, _)
hash_loop(key, i, value, a, size) ==
    IF i > Len(key) THEN value
    ELSE hash_loop(key, i + 1, (key[i] + a * value) % size,
                   (a * HASH_BASE) % (size - 1), size)

\* hash1(self, key): the hash of a first key under the outer table's size
hash1(t, key) == hash_loop(key, 1, 0, HASH_SEED, Len(t.array))

\* hash2(self, key, sub_table): the hash of a second key under the sub-table's size
hash2(key, sub_table) == hash_loop(key, 1, 0, HASH_SEED, Len(sub_table.array))

\* ------------------------------------------------------------------------
\* LinearProbeTable (data_structures.hash_table): the sub-tables.
\* ------------------------------------------------------------------------
LPT_new(sizes) ==
    [array |-> [i \in 1..sizes[1] |-> NoneVal], size_index |-> 0, count |-> 0,
     TABLE_SIZES |-> sizes]

LPT_table_size(t) == Len(t.array)

LPT_len(t) == t.count

LPT_is_empty(t) == t.count = 0

RECURSIVE LPT_probe_loop(_, _, _, _, _)
LPT_probe_loop(t, key, is_insert, position, n) ==
    IF n = 0
    THEN [exc |-> IF is_insert THEN "FullError" ELSE "KeyError", pos |-> 0]
    ELSE IF t.array[position + 1] = NoneVal
         THEN IF is_insert THEN [exc |-> NoExc, pos |-> position]
              ELSE [exc |-> "KeyError", pos |-> 0]
         ELSE IF t.array[position + 1].key = key
              THEN [exc |-> NoExc, pos |-> position]
              ELSE LPT_probe_loop(t, key, is_insert,
                                  (position + 1) % LPT_table_size(t), n - 1)

LPT_linear_probe(t, key, is_insert) ==
    LPT_probe_loop(t, key, is_insert, hash2(key, t), LPT_table_size(t))

RECURSIVE LPT_setitem(_, _, _)
RECURSIVE LPT_rehash(_)
RECURSIVE LPT_reinsert(_, _, _)

LPT_setitem(t, key, data) ==
    LET p == LPT_linear_probe(t, key, TRUE) IN
    IF p.exc # NoExc THEN [exc |-> p.exc, t |-> t]
    ELSE LET c  == IF t.array[p.pos + 1] = NoneVal THEN t.count + 1 ELSE t.count
             t1 == [t EXCEPT !.count = c,
                             !.array[p.pos + 1] =
                                 [kind |-> "item", key |-> key, value |-> data]]
         IN  IF 2 * LPT_len(t1) > LPT_table_size(t1)
             THEN [exc |-> NoExc, t |-> LPT_rehash(t1)]
             ELSE [exc |-> NoExc, t |-> t1]

\* reinsert old_array[i..] into t with self[key] = value
LPT_reinsert(t, old_array, i) ==
    IF i > Len(old_array) THEN t
    ELSE IF old_array[i] = NoneVal THEN LPT_reinsert(t, old_array, i + 1)
         ELSE LPT_reinsert(LPT_setitem(t, old_array[i].key, old_array[i].value).t,
                           old_array, i + 1)

LPT_rehash(t) ==
    LET idx == t.size_index + 1 IN
    IF idx = Len(t.TABLE_SIZES) THEN [t EXCEPT !.size_index = idx]
    ELSE LPT_reinsert([t EXCEPT !.size_index = idx, !.count = 0,
                                !.array = [i \in 1..t.TABLE_SIZES[idx + 1] |-> NoneVal]],
                      t.array, 1)

\* the re-insertion walk after a deletion, from position to the first empty slot
RECURSIVE LPT_compact(_, _)
LPT_compact(t, position) ==
    IF t.array[position + 1] = NoneVal THEN t
    ELSE LET e      == t.array[position + 1]
             t1     == [t EXCEPT !.array[position + 1] = NoneVal]
             newpos == LPT_linear_probe(t1, e.key, TRUE).pos
             t2     == [t1 EXCEPT !.array[newpos + 1] = e]
         IN  LPT_compact(t2, (position + 1) % LPT_table_size(t))

LPT_delitem(t, key) ==
    LET p == LPT_linear_probe(t, key, FALSE) IN
    IF p.exc # NoExc THEN [exc |-> p.exc, t |-> t]
    ELSE LET t1 == [t EXCEPT !.array[p.pos + 1] = NoneVal, !.count = t.count - 1]
         IN  [exc |-> NoExc, t |-> LPT_compact(t1, (p.pos + 1) % LPT_table_size(t))]

\* ------------------------------------------------------------------------
\* DoubleKeyTable
\* ------------------------------------------------------------------------
\* the class attribute TABLE_SIZES: the default capacity schedule
TABLE_SIZES ==
    <<5, 13, 29, 53, 97, 193, 389, 769, 1543, 3079, 6151, 12289, 24593, 49157,
      98317, 196613, 393241, 786433, 1572869>>

\* __init__(sizes, internal_sizes)
DKT_init(sizes, internal_sizes) ==
    [array |-> [i \in 1..sizes[1] |-> NoneVal], size_index |-> 0, count |-> 0,
     TABLE_SIZES |-> sizes, internal_sizes |-> internal_sizes]

table_size(t) == Len(t.array)

DKT_len(t) == t.count

\* create_internal_table(key1, pos): a fresh LinearProbeTable at slot pos
create_internal_table(t, key1, pos) ==
    [t EXCEPT !.array[pos + 1] =
        [kind |-> "entry", key |-> key1, sub |-> LPT_new(t.internal_sizes)]]

\* get_position: n is the number of iterations of `for _ in range(table_size)` left.
\* The result carries the table, because an inserting probe with two keys creates
\* the internal table in the empty slot it stops at.
RECURSIVE get_position_loop(_, _, _, _, _, _, _)
get_position_loop(t, key1, key2, is_insert, position, condition, n) ==
    IF n = 0 THEN [exc |-> "KeyError", pos1 |-> 0, pos2 |-> 0, t |-> t]
    ELSE IF t.array[position + 1] = NoneVal
         THEN IF is_insert
              THEN IF ~condition
                   THEN [exc |-> NoExc, pos1 |-> position, pos2 |-> 0, t |-> t]
                   ELSE LET t1 == create_internal_table(t, key1, position) IN
                        [exc |-> NoExc, pos1 |-> position,
                         pos2 |-> hash2(key2, t1.array[position + 1].sub), t |-> t1]
              ELSE [exc |-> "KeyError", pos1 |-> 0, pos2 |-> 0, t |-> t]
         ELSE IF t.array[position + 1].key = key1
              THEN IF ~condition
                   THEN [exc |-> NoExc, pos1 |-> position, pos2 |-> 0, t |-> t]
                   ELSE LET p == LPT_linear_probe(t.array[position + 1].sub, key2, is_insert)
                        IN  [exc |-> p.exc, pos1 |-> position, pos2 |-> p.pos, t |-> t]
              ELSE get_position_loop(t, key1, key2, is_insert,
                                     (position + 1) % table_size(t), condition, n - 1)

get_position(t, key1, key2, is_insert, position, condition) ==
    get_position_loop(t, key1, key2, is_insert, position, condition, table_size(t))

\* Python's key2 = None: no string has a negative character code
NoKey == << -1 >>

\* _linear_probe passing is_insert = True to get_position whatever the caller asked
linear_probe_always_insert(t, key1, key2, is_insert) ==
    get_position(t, key1, key2, TRUE, hash1(t, key1), key2 # NoKey)

\* _linear_probe(key1, key2, is_insert)
linear_probe(t, key1, key2, is_insert) ==
    get_position(t, key1, key2, is_insert, hash1(t, key1), key2 # NoKey)

\* the loop of _rehash over old_table[i..]: no probing, the entry is stored at
\* hash1(key1) whatever is there, and count is incremented
RECURSIVE rehash_reinsert(_, _, _)
rehash_reinsert(t, old_table, i) ==
    IF i > Len(old_table) THEN t
    ELSE IF old_table[i] = NoneVal THEN rehash_reinsert(t, old_table, i + 1)
         ELSE LET key1 == old_table[i].key
                  sub  == old_table[i].sub
                  sub1 == IF 2 * LPT_len(sub) > LPT_table_size(sub)
                          THEN LPT_rehash(sub) ELSE sub
                  t1   == [t EXCEPT !.array[hash1(t, key1) + 1] =
                                        [kind |-> "entry", key |-> key1, sub |-> sub1],
                                    !.count = t.count + 1]
              IN  rehash_reinsert(t1, old_table, i + 1)

\* _rehash with count reset before the test of the schedule's end
DKT_rehash_reset_first(t) ==
    LET idx == t.size_index + 1 IN
    IF idx >= Len(t.TABLE_SIZES) THEN [t EXCEPT !.size_index = idx, !.count = 0]
    ELSE rehash_reinsert([t EXCEPT !.size_index = idx, !.count = 0,
                                   !.array = [i \in 1..t.TABLE_SIZES[idx + 1] |-> NoneVal]],
                         t.array, 1)

\* _rehash
DKT_rehash(t) ==
    LET idx == t.size_index + 1 IN
    IF idx >= Len(t.TABLE_SIZES) THEN [t EXCEPT !.size_index = idx]
    ELSE rehash_reinsert([t EXCEPT !.size_index = idx, !.count = 0,
                                   !.array = [i \in 1..t.TABLE_SIZES[idx + 1] |-> NoneVal]],
                         t.array, 1)

\* __getitem__
DKT_getitem(t, key1, key2) ==
    LET p == linear_probe(t, key1, key2, FALSE) IN
    IF p.exc # NoExc THEN [exc |-> p.exc, value |-> 0]
    ELSE [exc |-> NoExc, value |-> t.array[p.pos1 + 1].sub.array[p.pos2 + 1].value]

\* __contains__
DKT_contains(t, key1, key2) == DKT_getitem(t, key1, key2).exc # "KeyError"

\* __setitem__ up to `sub_table[key2] = data`: the insertion alone
DKT_insert(t, key1, key2, data) ==
    LET p == linear_probe(t, key1, key2, TRUE) IN
    IF p.exc # NoExc THEN [exc |-> p.exc, t |-> t]
    ELSE LET sub_table == p.t.array[p.pos1 + 1].sub
             t1 == IF LPT_is_empty(sub_table)
                   THEN [p.t EXCEPT !.count = p.t.count + 1] ELSE p.t
             r  == LPT_setitem(sub_table, key2, data)
             t2 == [t1 EXCEPT !.array[p.pos1 + 1].sub = r.t]
         IN  [exc |-> r.exc, t |-> t2]

\* __setitem__ growing only once len() exceeds the whole capacity
DKT_setitem_grow_when_over_capacity(t, key1, key2, data) ==
    LET r == DKT_insert(t, key1, key2, data) IN
    IF r.exc # NoExc THEN r
    ELSE IF DKT_len(r.t) > table_size(r.t)
         THEN [exc |-> NoExc, t |-> DKT_rehash(r.t)]
         ELSE r

\* __setitem__: the insertion, then `if len(self) > self.table_size / 2: self._rehash()`
DKT_setitem(t, key1, key2, data) ==
    LET r == DKT_insert(t, key1, key2, data) IN
    IF r.exc # NoExc THEN r
    ELSE IF 2 * DKT_len(r.t) > table_size(r.t)
         THEN [exc |-> NoExc, t |-> DKT_rehash(r.t)]
         ELSE r

\* __delitem__ without its while loop: the cluster after the slot stays in place
DKT_compact_skipped(t, position1) == t

\* the while loop of __delitem__ reinserting each key1 with a fresh sub-table
RECURSIVE DKT_compact_keys_only(_, _)
DKT_compact_keys_only(t, position1) ==
    IF t.array[position1 + 1] = NoneVal THEN t
    ELSE LET e      == t.array[position1 + 1]
             t1     == [t EXCEPT !.array[position1 + 1] = NoneVal]
             newpos == linear_probe(t1, e.key, NoKey, TRUE).pos1
             t2     == create_internal_table(t1, e.key, newpos)
         IN  DKT_compact_keys_only(t2, (position1 + 1) % table_size(t))

\* the while loop of __delitem__ run for at most max iterations from the n-th:
\* the table it leaves and the iterations made; steps = max when the slot at
\* position1 is still occupied after them
RECURSIVE DKT_compact_counted(_, _, _, _)
DKT_compact_counted(t, position1, n, max) ==
    IF t.array[position1 + 1] = NoneVal \/ n >= max THEN [t |-> t, steps |-> n]
    ELSE LET e      == t.array[position1 + 1]
             t1     == [t EXCEPT !.array[position1 + 1] = NoneVal]
             newpos == linear_probe(t1, e.key, NoKey, TRUE).pos1
             t2     == [t1 EXCEPT !.array[newpos + 1] = e]
         IN  DKT_compact_counted(t2, (position1 + 1) % table_size(t), n + 1, max)

\* the while loop of __delitem__ left after its first iteration
DKT_compact_one_iteration(t, position1) ==
    DKT_compact_counted(t, position1, 0, 1).t

\* the while loop of __delitem__, from position1 to the first empty slot
RECURSIVE DKT_compact(_, _)
DKT_compact(t, position1) ==
    IF t.array[position1 + 1] = NoneVal THEN t
    ELSE LET e      == t.array[position1 + 1]
             t1     == [t EXCEPT !.array[position1 + 1] = NoneVal]
             newpos == linear_probe(t1, e.key, NoKey, TRUE).pos1
             t2     == [t1 EXCEPT !.array[newpos + 1] = e]
         IN  DKT_compact(t2, (position1 + 1) % table_size(t))

\* __delitem__ with the deletion made on a copy of a sub-table that stays non-empty
DKT_delitem_on_copy(t, key1, key2) ==
    LET p == linear_probe(t, key1, key2, FALSE) IN
    IF p.exc # NoExc THEN [exc |-> p.exc, t |-> t]
    ELSE LET r  == LPT_delitem(t.array[p.pos1 + 1].sub, key2)
         IN  IF r.exc # NoExc THEN [exc |-> r.exc, t |-> t]
             ELSE IF LPT_is_empty(r.t)
                  THEN [exc |-> NoExc,
                        t |-> DKT_compact([t EXCEPT !.array[p.pos1 + 1] = NoneVal,
                                                    !.count = t.count - 1],
                                          (p.pos1 + 1) % table_size(t))]
                  ELSE [exc |-> NoExc, t |-> t]

\* the emptied sub-table's slot is left in place, only count is decremented
DKT_remove_group_count_only(t, position1) ==
    [t EXCEPT !.count = t.count - 1]

\* the emptied sub-table's slot is cleared and count decremented, but the loop
\* starts on the cleared slot itself and so reinserts nothing
DKT_remove_group_loop_from_slot(t, position1) ==
    DKT_compact([t EXCEPT !.array[position1 + 1] = NoneVal, !.count = t.count - 1],
                position1)

\* the body of `if sub_table.is_empty():` in __delitem__: the slot is cleared,
\* count decremented and the cluster after the slot reinserted
DKT_remove_group(t, position1) ==
    DKT_compact([t EXCEPT !.array[position1 + 1] = NoneVal, !.count = t.count - 1],
                (position1 + 1) % table_size(t))

\* __delitem__
DKT_delitem(t, key1, key2) ==
    LET p == linear_probe(t, key1, key2, FALSE) IN
    IF p.exc # NoExc THEN [exc |-> p.exc, t |-> p.t]
    ELSE LET r  == LPT_delitem(p.t.array[p.pos1 + 1].sub, key2)
             t1 == [p.t EXCEPT !.array[p.pos1 + 1].sub = r.t]
         IN  IF r.exc # NoExc THEN [exc |-> r.exc, t |-> t1]
             ELSE IF LPT_is_empty(r.t)
                  THEN [exc |-> NoExc, t |-> DKT_remove_group(t1, p.pos1)]
                  ELSE [exc |-> NoExc, t |-> t1]

\* the scan of a sub-table's array, collecting field get_item of each item
RECURSIVE scan_items(_, _, _)
scan_items(arr, i, get_item) ==
    IF i > Len(arr) THEN <<>>
    ELSE IF arr[i] = NoneVal THEN scan_items(arr, i + 1, get_item)
         ELSE <<IF get_item = 0 THEN arr[i].key ELSE arr[i].value>>
              \o scan_items(arr, i + 1, get_item)

\* get_keys_or_values(key, get_item)
get_keys_or_values(t, key, get_item) ==
    LET p == linear_probe(t, key, NoKey, FALSE) IN
    IF p.exc # NoExc THEN [exc |-> p.exc, res |-> <<>>]
    ELSE [exc |-> NoExc, res |-> scan_items(t.array[p.pos1 + 1].sub.array, 1, get_item)]

\* keys(None): the first keys in array order
RECURSIVE scan_keys(_, _)
scan_keys(arr, i) ==
    IF i > Len(arr) THEN <<>>
    ELSE IF arr[i] = NoneVal THEN scan_keys(arr, i + 1)
         ELSE <<arr[i].key>> \o scan_keys(arr, i + 1)

DKT_keys(t) == scan_keys(t.array, 1)

\* values(key)
DKT_values(t, key) == get_keys_or_values(t, key, 1)

\* keys(key) for a first key
DKT_keys_of(t, key) == get_keys_or_values(t, key, 0)

\* what iterating the generator iter_keys_or_values(key, get_item) yields
iter_keys_or_values(t, key, get_item) ==
    LET p == linear_probe(t, key, NoKey, FALSE) IN
    IF p.exc # NoExc THEN [exc |-> p.exc, res |-> <<>>]
    ELSE [exc |-> NoExc, res |-> scan_items(t.array[p.pos1 + 1].sub.array, 1, get_item)]

\* the values of every sub-table, in outer array order
RECURSIVE scan_all_values(_, _)
scan_all_values(arr, i) ==
    IF i > Len(arr) THEN <<>>
    ELSE IF arr[i] = NoneVal THEN scan_all_values(arr, i + 1)
         ELSE scan_items(arr[i].sub.array, 1, 1) \o scan_all_values(arr, i + 1)

\* list(iter_keys(key)). iter_keys is a generator function; its else branch is the
\* statement `self.iter_keys_or_values(key, 0)`: the generator object that call
\* builds is dropped without being iterated (its body, the probe included, never
\* runs), so nothing is yielded for a first key.
iter_keys(t, key) ==
    IF key = NoKey THEN [exc |-> NoExc, res |-> scan_keys(t.array, 1)]
    ELSE [exc |-> NoExc, res |-> <<>>]

\* list(iter_values(key)): as iter_keys, `self.iter_keys_or_values(key, 1)` is dropped
iter_values(t, key) ==
    IF key = NoKey THEN [exc |-> NoExc, res |-> scan_all_values(t.array, 1)]
    ELSE [exc |-> NoExc, res |-> <<>>]

\* ------------------------------------------------------------------------
\* The DoubleKeyTable under test: DoubleKeyTable(sizes, internal_sizes) with
\* small schedules, first keys that collide under the larger capacities and
\* second keys that collide in a fresh sub-table.
\* ------------------------------------------------------------------------
\* "a", "f", "ab": hash1 is 1, 0, 0 of 3; 2, 2, 4 of 5; 6, 4, 6 of 7
DKT_K1 == {<<97>>, <<102>>, <<97, 98>>}

\* "x", "f": hash2 is 0, 0 of 3; 0, 2 of 5
DKT_K2 == {<<120>>, <<102>>}

DKT_SIZES == <<3, 5, 7>>

DKT_INTERNAL_SIZES == <<3, 5>>

\* a schedule of one capacity, which two first keys fill: hash1 of "a", "f", "ab"
\* is 1, 0, 0 of 2
DKT_FULL_SIZES == <<2>>

\* a schedule of one capacity, which the three first keys fill with "ab" probed
\* from slot 0 round to slot 2
DKT_FULL_SIZES_OF_THREE == <<3>>

\* the values stored are 1..DKT_MaxVal; 0 stands for "no value" in the abstract map.
\* Presence, not the value, decides where a pair is stored.
DKT_MaxVal == 1

\* _rehash increments size_index on every call, also once the schedule is
\* exhausted: sets are explored while size_index is below this cap
MaxSizeIndex == 3

DKT_Pairs == DKT_K1 \X DKT_K2

\* Ghost state of the table under test:
\*   dkt_abs      the abstract map: the last value set for each pair, 0 once deleted
\*   dkt_deleted  the pairs deleted and not set again since
\*   dkt_hist     "fresh" while every call so far set a pair not set before,
\*                "sets" while every call so far was a set, "mixed" after a delete
DKT_Init ==
    /\ dkt = DKT_init(DKT_SIZES, DKT_INTERNAL_SIZES)
    /\ dkt_abs = [p \in DKT_Pairs |-> 0]
    /\ dkt_deleted = {}
    /\ dkt_hist = "fresh"

\* the table with either one-capacity schedule
DKT_Full_Init ==
    /\ dkt \in {DKT_init(DKT_FULL_SIZES, DKT_INTERNAL_SIZES),
                DKT_init(DKT_FULL_SIZES_OF_THREE, DKT_INTERNAL_SIZES)}
    /\ dkt_abs = [p \in DKT_Pairs |-> 0]
    /\ dkt_deleted = {}
    /\ dkt_hist = "fresh"

\* table[key1, key2] = v
DKT_Set(k1, k2, v) ==
    /\ dkt.size_index < MaxSizeIndex
    /\ \E r \in {DKT_setitem(dkt, k1, k2, v)} :
          /\ dkt' = r.t
          /\ dkt_abs' = IF r.exc = NoExc THEN [dkt_abs EXCEPT ![<<k1, k2>>] = v]
                        ELSE dkt_abs
          /\ dkt_deleted' = IF r.exc = NoExc THEN dkt_deleted \ {<<k1, k2>>}
                            ELSE dkt_deleted
    /\ dkt_hist' = IF dkt_hist = "fresh" /\ dkt_abs[<<k1, k2>>] # 0 THEN "sets" ELSE dkt_hist
    /\ UNCHANGED <<iht_vars, cm_vars, co_vars, fp_vars, rt_vars>>

\* del table[key1, key2]
DKT_Del(k1, k2) ==
    /\ \E r \in {DKT_delitem(dkt, k1, k2)} :
          /\ dkt' = r.t
          /\ dkt_abs' = IF r.exc = NoExc THEN [dkt_abs EXCEPT ![<<k1, k2>>] = 0]
                        ELSE dkt_abs
          /\ dkt_deleted' = IF r.exc = NoExc THEN dkt_deleted \cup {<<k1, k2>>}
                            ELSE dkt_deleted
    /\ dkt_hist' = "mixed"
    /\ UNCHANGED <<iht_vars, cm_vars, co_vars, fp_vars, rt_vars>>

DKT_Next ==
    \/ \E k1 \in DKT_K1, k2 \in DKT_K2, v \in 1..DKT_MaxVal : DKT_Set(k1, k2, v)
    \/ \E k1 \in DKT_K1, k2 \in DKT_K2 : DKT_Del(k1, k2)

\* ------------------------------------------------------------------------
\* The DoubleKeyTable with the default schedule: DoubleKeyTable(), under first
\* keys enough to grow it from 5 to 13 and from 13 to 29 slots
\* ------------------------------------------------------------------------
\* "a" .. "g"
DKT_DEFAULT_K1 == {<<97>>, <<98>>, <<99>>, <<100>>, <<101>>, <<102>>, <<103>>}

DKT_Default_Init ==
    /\ dkt = DKT_init(TABLE_SIZES, TABLE_SIZES)
    /\ dkt_abs = [p \in DKT_Pairs |-> 0]
    /\ dkt_deleted = {}
    /\ dkt_hist = "fresh"

\* table[key1, "x"] = 1
DKT_Default_Set(k1) ==
    /\ dkt.size_index < MaxSizeIndex
    /\ \E r \in {DKT_setitem(dkt, k1, <<120>>, 1)} :
          dkt' = r.t
    /\ UNCHANGED <<dkt_abs, dkt_deleted, dkt_hist>>
    /\ UNCHANGED <<iht_vars, cm_vars, co_vars, fp_vars, rt_vars>>

\* del table[key1, "x"]
DKT_Default_Del(k1) ==
    /\ \E r \in {DKT_delitem(dkt, k1, <<120>>)} :
          dkt' = r.t
    /\ UNCHANGED <<dkt_abs, dkt_deleted, dkt_hist>>
    /\ UNCHANGED <<iht_vars, cm_vars, co_vars, fp_vars, rt_vars>>

DKT_Default_Next ==
    \/ \E k1 \in DKT_DEFAULT_K1 : DKT_Default_Set(k1)
    \/ \E k1 \in DKT_DEFAULT_K1 : DKT_Default_Del(k1)


\* ------------------------------------------------------------------------
\* Properties of DoubleKeyTable
\* ------------------------------------------------------------------------
\* the first keys stored in the outer array with a non-empty sub-table
DKT_StoredKey1s(t) ==
    {t.array[i].key : i \in {j \in 1..Len(t.array) :
                                t.array[j] # NoneVal /\ ~LPT_is_empty(t.array[j].sub)}}

\* the second keys the abstract map holds under key1
DKT_AbsKey2s(k1) == {k2 \in DKT_K2 : dkt_abs[<<k1, k2>>] # 0}

\* the bag of the values the abstract map holds under key1
DKT_AbsValues(k1) ==
    [v \in {dkt_abs[<<k1, k2>>] : k2 \in DKT_AbsKey2s(k1)} |->
        Cardinality({k2 \in DKT_AbsKey2s(k1) : dkt_abs[<<k1, k2>>] = v})]

\* the bag of the elements of a sequence
SeqToBag(s) ==
    [v \in {s[i] : i \in 1..Len(s)} |-> Cardinality({i \in 1..Len(s) : s[i] = v})]

\* C1: len() is the number of distinct key1 values that have at least one key2
\* entry stored, after any sets and deletes, outer rehashes included.
C1_LenCountsKey1Groups ==
    DKT_len(dkt) = Cardinality(DKT_StoredKey1s(dkt))

\* C2: once sets alone have forced two or more outer rehashes, get(key1, key2)
\* returns the last value set for every pair set so far.
C2_GrowthKeepsEveryPair ==
    (dkt_hist # "mixed" /\ dkt.size_index >= 2) =>
        \A p \in DKT_Pairs :
            dkt_abs[p] # 0 =>
                DKT_getitem(dkt, p[1], p[2]) = [exc |-> NoExc, value |-> dkt_abs[p]]

\* C3: after sets of unique triples into an empty table, values(key1) is exactly
\* the collection of the values set under key1 (so it is the same for every
\* order of insertion).
C3_ValuesRoundTrip ==
    dkt_hist = "fresh" =>
        \A k1 \in DKT_K1 :
            DKT_AbsKey2s(k1) # {} =>
                /\ DKT_values(dkt, k1).exc = NoExc
                /\ SeqToBag(DKT_values(dkt, k1).res) = DKT_AbsValues(k1)

\* C4: a pair that was set and then deleted is not contained, and get raises
\* KeyError, in every later state until the pair is set again.
C4_DeletedPairStaysAbsent ==
    \A p \in dkt_deleted :
        /\ ~DKT_contains(dkt, p[1], p[2])
        /\ DKT_getitem(dkt, p[1], p[2]).exc = "KeyError"

\* C4 witness: a deleted pair whose key1 still holds its other key2, in a table
\* where some entry sits away from its home slot (a probing collision)
C4_Witness ==
    \E p \in dkt_deleted :
        /\ p[1] \in DKT_StoredKey1s(dkt)
        /\ \E i \in 1..Len(dkt.array) :
              dkt.array[i] # NoneVal /\ hash1(dkt, dkt.array[i].key) # i - 1

\* the pairs held by the arrays of the table
DKT_StoredPairs(t) ==
    UNION {{<<t.array[i].key, t.array[i].sub.array[j].key>> :
                j \in {n \in 1..Len(t.array[i].sub.array) :
                          t.array[i].sub.array[n] # NoneVal}} :
           i \in {m \in 1..Len(t.array) : t.array[m] # NoneVal}}

\* the first keys held by the outer array, whatever their sub-table holds
DKT_SlotKeys(t) == {t.array[i].key : i \in {m \in 1..Len(t.array) : t.array[m] # NoneVal}}

\* the outer table is at the last capacity of its schedule (or past it: _rehash
\* goes on incrementing size_index)
DKT_AtLastCapacity(t) == t.size_index >= Len(t.TABLE_SIZES) - 1

\* C14: get, contains and delete of a pair that is not stored report not-found
\* (KeyError, False for contains) and leave the table as it was: the probe of a
\* lookup creates no sub-table, the failed delete changes no array and no count.
C14_NotFoundLeavesTableUnchanged ==
    \A p \in DKT_Pairs \ DKT_StoredPairs(dkt) :
        /\ LET probe == linear_probe(dkt, p[1], p[2], FALSE)
           IN  probe.exc = "KeyError" /\ probe.t = dkt
        /\ DKT_getitem(dkt, p[1], p[2]).exc = "KeyError"
        /\ ~DKT_contains(dkt, p[1], p[2])
        /\ DKT_delitem(dkt, p[1], p[2]) = [exc |-> "KeyError", t |-> dkt]

\* C14 witness: after a delete, a table that misses one pair whose key1 is absent
\* and one pair whose key1 is stored with its other key2
C14_Witness ==
    /\ dkt_hist = "mixed"
    /\ \E p \in DKT_Pairs \ DKT_StoredPairs(dkt) : p[1] \notin DKT_SlotKeys(dkt)
    /\ \E p \in DKT_Pairs \ DKT_StoredPairs(dkt) : p[1] \in DKT_SlotKeys(dkt)

\* C15: with the outer table at its last capacity and every outer slot held by
\* another key1, a set with a new key1 fails with FullError (not KeyError) and
\* leaves the table unchanged.
C15_FullTableSetRaisesFullError ==
    \A k1 \in DKT_K1 \ DKT_SlotKeys(dkt), k2 \in DKT_K2, v \in 1..DKT_MaxVal :
        (/\ DKT_AtLastCapacity(dkt)
         /\ \A i \in 1..Len(dkt.array) : dkt.array[i] # NoneVal) =>
            DKT_setitem(dkt, k1, k2, v) = [exc |-> "FullError", t |-> dkt]

\* C16: with the outer table at its last capacity, a set whose insertion pushes
\* count above half the capacity completes without error and the growth attempt
\* changes nothing of it: capacity, outer array and count are those the insertion
\* alone produced, and every stored pair is retrievable with its value.
C16_GrowthAtLastCapacityIsNoOp ==
    \A k1 \in DKT_K1, k2 \in DKT_K2, v \in 1..DKT_MaxVal :
        LET ins == DKT_insert(dkt, k1, k2, v)
            set == DKT_setitem(dkt, k1, k2, v)
        IN  (/\ DKT_AtLastCapacity(dkt)
             /\ ins.exc = NoExc
             /\ 2 * DKT_len(ins.t) > table_size(ins.t)) =>
                /\ set.exc = NoExc
                /\ table_size(set.t) = table_size(ins.t)
                /\ set.t.array = ins.t.array
                /\ DKT_len(set.t) = DKT_len(ins.t)
                /\ \A p \in DKT_StoredPairs(ins.t) :
                      /\ DKT_getitem(set.t, p[1], p[2]).exc = NoExc
                      /\ DKT_getitem(set.t, p[1], p[2]) = DKT_getitem(ins.t, p[1], p[2])

\* C16 witness: a table left by such a set: size_index has passed the last index
\* of the schedule, which only the growth attempt at the last capacity does
C16_Witness ==
    /\ dkt.size_index >= Len(dkt.TABLE_SIZES)
    /\ 2 * DKT_len(dkt) > table_size(dkt)
    /\ Cardinality(DKT_StoredPairs(dkt)) >= 2

\* C17: at most one outer slot holds any given key1.
C17_OneSlotPerKey1 ==
    \A i, j \in 1..Len(dkt.array) :
        (i # j /\ dkt.array[i] # NoneVal /\ dkt.array[j] # NoneVal) =>
            dkt.array[i].key # dkt.array[j].key

\* C17 witness: after a delete, two first keys stored, one of them away from its
\* home slot
C17_Witness ==
    /\ dkt_hist = "mixed"
    /\ dkt_deleted # {}
    /\ Cardinality(DKT_SlotKeys(dkt)) >= 2
    /\ \E i \in 1..Len(dkt.array) :
          dkt.array[i] # NoneVal /\ hash1(dkt, dkt.array[i].key) # i - 1

\* C18: an outer slot is occupied exactly when its sub-table is non-empty: no
\* occupied slot holds an empty sub-table, and keys() lists exactly the first keys
\* that have a pair stored (so a key1 whose last key2 was deleted is gone from
\* keys(), and one that keeps another key2 stays).
C18_SlotOccupiedIffSubTableNonEmpty ==
    /\ \A i \in 1..Len(dkt.array) :
          dkt.array[i] # NoneVal =>
              /\ ~LPT_is_empty(dkt.array[i].sub)
              /\ scan_items(dkt.array[i].sub.array, 1, 0) # <<>>
    /\ {DKT_keys(dkt)[i] : i \in 1..Len(DKT_keys(dkt))} =
          {p[1] : p \in DKT_StoredPairs(dkt)}

\* C18 witness: one delete took the last key2 of its key1 (gone from keys()),
\* another left its key1 with a key2 (still in keys())
C18_Witness ==
    /\ \E p \in dkt_deleted : p[1] \notin DKT_SlotKeys(dkt)
    /\ \E p \in dkt_deleted : p[1] \in DKT_SlotKeys(dkt)

\* C19: for every key1 k in the table, iter_keys(k) yields the elements of
\* keys(k) and iter_values(k) the elements of values(k), in the same order.
C19_IteratorsAgreeWithLists ==
    \A k \in DKT_SlotKeys(dkt) :
        /\ iter_keys(dkt, k) = DKT_keys_of(dkt, k)
        /\ iter_values(dkt, k) = DKT_values(dkt, k)

\* the slots 0-based of the wrap-around probe path from slot h to slot p
DKT_ProbePath(t, h, p) ==
    {(h + d) % table_size(t) : d \in 0..((p - h) % table_size(t))}

\* C25: probe reachability in the outer array: for every occupied slot, every slot
\* on the wrap-around probe path from hash1 of its key1 to it is occupied.
C25_ProbePathOccupied ==
    \A p \in 0..(table_size(dkt) - 1) :
        dkt.array[p + 1] # NoneVal =>
            \A q \in DKT_ProbePath(dkt, hash1(dkt, dkt.array[p + 1].key), p) :
                dkt.array[q + 1] # NoneVal

\* C25 witness: after a delete, an entry lies away from its home slot, behind
\* another entry
C25_Witness ==
    /\ dkt_deleted # {}
    /\ \E p \in 0..(table_size(dkt) - 1) :
          /\ dkt.array[p + 1] # NoneVal
          /\ hash1(dkt, dkt.array[p + 1].key) # p

\* the stored pairs whose delete empties the group of their first key
DKT_LastOfGroup(t) ==
    {p \in DKT_StoredPairs(t) : \A q \in DKT_StoredPairs(t) : q[1] = p[1] => q = p}

\* the elements of a sequence
SeqToSet(seq) == {seq[i] : i \in 1..Len(seq)}

\* C26: a delete that empties the group of a key1 and reinserts the cluster after
\* its slot moves whole pairs: for every other key1 k, keys(k) and values(k) are
\* the same before and after, and the set of key1s loses the emptied key1 only.
C26_CompactionKeepsOtherGroups ==
    \A p \in DKT_LastOfGroup(dkt) :
        LET r == DKT_delitem(dkt, p[1], p[2]) IN
        /\ r.exc = NoExc
        /\ \A k \in DKT_K1 \ {p[1]} :
              /\ DKT_keys_of(r.t, k) = DKT_keys_of(dkt, k)
              /\ DKT_values(r.t, k) = DKT_values(dkt, k)
        /\ SeqToSet(DKT_keys(r.t)) = SeqToSet(DKT_keys(dkt)) \ {p[1]}

\* C26 witness: the delete of the only pair of a key1 moves the entry of another
\* key1, which holds two pairs, to another slot
C26_Witness ==
    \E p \in DKT_LastOfGroup(dkt) :
        LET r == DKT_delitem(dkt, p[1], p[2]) IN
        \E i \in 1..Len(dkt.array) :
            /\ dkt.array[i] # NoneVal
            /\ dkt.array[i].key # p[1]
            /\ LPT_len(dkt.array[i].sub) = 2
            /\ r.t.array[i] # dkt.array[i]
            /\ \E j \in 1..Len(r.t.array) : j # i /\ r.t.array[j] = dkt.array[i]

\* C27: with the default capacity schedule and below its last capacity, len() is
\* at most half of table_size after every set, and a set grows the table exactly
\* when it makes len() exceed half of table_size.
C27_LoadAtMostHalf ==
    /\ ~DKT_AtLastCapacity(dkt) => 2 * DKT_len(dkt) <= table_size(dkt)
    /\ \A k1 \in DKT_DEFAULT_K1 :
          LET r       == DKT_setitem(dkt, k1, <<120>>, 1)
              new_len == IF k1 \in DKT_StoredKey1s(dkt) THEN DKT_len(dkt)
                         ELSE DKT_len(dkt) + 1
          IN  /\ r.exc = NoExc
              /\ (2 * new_len > table_size(dkt)) =>
                    /\ r.t.size_index = dkt.size_index + 1
                    /\ table_size(r.t) = TABLE_SIZES[dkt.size_index + 2]
              /\ (2 * new_len <= table_size(dkt)) =>
                    /\ r.t.size_index = dkt.size_index
                    /\ table_size(r.t) = table_size(dkt)
              /\ 2 * DKT_len(r.t) <= table_size(r.t)

\* C27 witness: the table has grown twice, to 29 slots, on the set of the seventh
\* first key
C27_Witness ==
    /\ dkt.TABLE_SIZES = TABLE_SIZES
    /\ dkt.size_index = 2
    /\ table_size(dkt) = 29
    /\ DKT_len(dkt) = 7

\* ------------------------------------------------------------------------
\* InfiniteHashTable
\* ------------------------------------------------------------------------
TABLE_SIZE == 27

\* The depth of nested calls after which Python raises RecursionError
\* (sys.getrecursionlimit()), scaled down to the keys explored.
MaxRecursion == 6

\* __init__(level)
IHT_init(level) ==
    [array |-> [i \in 1..TABLE_SIZE |-> NoneVal], count |-> 0, level |-> level]

\* hash(key) with a key shorter than the level sent to slot 0
IHT_hash_end_at_first_slot(node, key) ==
    IF node.level < Len(key) THEN key[node.level + 1] % (TABLE_SIZE - 1)
    ELSE 0

\* hash(key)
IHT_hash(node, key) ==
    IF node.level < Len(key) THEN key[node.level + 1] % (TABLE_SIZE - 1)
    ELSE TABLE_SIZE - 1

IHT_len(node) == node.count

IHT_leaf(key, value) == [kind |-> "leaf", key |-> key, value |-> value]

IHT_table(node) == [kind |-> "table", node |-> node]

\* __getitem__
RECURSIVE IHT_getitem(_, _)
IHT_getitem(node, key) ==
    LET item == node.array[IHT_hash(node, key) + 1] IN
    IF item.kind = "table" THEN IHT_getitem(item.node, key)
    ELSE IF item # NoneVal /\ item.key = key THEN [exc |-> NoExc, value |-> item.value]
         ELSE [exc |-> "KeyError", value |-> 0]

\* __contains__
IHT_contains(node, key) == IHT_getitem(node, key).exc # "KeyError"

\* lines 106-108 with the count incremented once for each of the two leaves
IHT_store_new_table_count2(node, pos, new_table) ==
    [node EXCEPT !.array[pos + 1] = IHT_table(new_table), !.count = node.count + 2]

\* lines 106-108 of __setitem__: the slot takes the new nested table, count += 1
IHT_store_new_table(node, pos, new_table) ==
    [node EXCEPT !.array[pos + 1] = IHT_table(new_table), !.count = node.count + 1]

\* __setitem__; a call nested deeper than MaxRecursion raises RecursionError, which
\* propagates through every caller before any of them has stored anything
RECURSIVE IHT_setitem(_, _, _)
IHT_setitem(node, key, value) ==
    IF node.level > MaxRecursion THEN [exc |-> "RecursionError", t |-> node]
    ELSE
    LET pos  == IHT_hash(node, key)
        item == node.array[pos + 1]
    IN  IF item = NoneVal
        THEN [exc |-> NoExc,
              t |-> [node EXCEPT !.array[pos + 1] = IHT_leaf(key, value),
                                 !.count = node.count + 1]]
        ELSE IF item.kind = "table"
        THEN LET r == IHT_setitem(item.node, key, value) IN
             IF r.exc # NoExc THEN [exc |-> r.exc, t |-> node]
             ELSE IF IHT_contains(item.node, key)
                  THEN [exc |-> NoExc,
                        t |-> [node EXCEPT !.array[pos + 1] = IHT_table(r.t)]]
                  ELSE [exc |-> NoExc,
                        t |-> [node EXCEPT !.array[pos + 1] = IHT_table(r.t),
                                           !.count = node.count + 1]]
        ELSE IF item.key = key
        THEN [exc |-> NoExc, t |-> [node EXCEPT !.array[pos + 1] = IHT_leaf(key, value)]]
        ELSE LET r1 == IHT_setitem(IHT_init(node.level + 1), item.key, item.value)
                 r2 == IHT_setitem(r1.t, key, value)
             IN  IF r1.exc # NoExc THEN [exc |-> r1.exc, t |-> node]
                 ELSE IF r2.exc # NoExc THEN [exc |-> r2.exc, t |-> node]
                 ELSE [exc |-> NoExc, t |-> IHT_store_new_table(node, pos, r2.t)]

\* items(): the leaves of the node and of its nested tables, in array order
RECURSIVE IHT_items_from(_, _)
IHT_items_from(arr, i) ==
    IF i > Len(arr) THEN <<>>
    ELSE IF arr[i] = NoneVal THEN IHT_items_from(arr, i + 1)
         ELSE IF arr[i].kind = "leaf"
              THEN <<<<arr[i].key, arr[i].value>>>> \o IHT_items_from(arr, i + 1)
              ELSE IHT_items_from(arr[i].node.array, 1) \o IHT_items_from(arr, i + 1)

IHT_items(node) == IHT_items_from(node.array, 1)

\* lines 128-132 without the flattening of a nested table left with one leaf
IHT_after_nested_delete_no_flatten(n1, pos, sub) ==
    IF IHT_len(sub) = 0 THEN [n1 EXCEPT !.array[pos + 1] = NoneVal]
    ELSE [n1 EXCEPT !.array[pos + 1] = IHT_table(sub)]

\* lines 128-132 of __delitem__: the slot of the nested table sub after the
\* recursive delete: cleared when sub is empty, the remaining leaf when sub holds one
IHT_after_nested_delete(n1, pos, sub) ==
    LET its == IHT_items(sub) IN
    IF IHT_len(sub) = 0 THEN [n1 EXCEPT !.array[pos + 1] = NoneVal]
    ELSE IF IHT_len(sub) = 1 /\ its # <<>>
         THEN [n1 EXCEPT !.array[pos + 1] = IHT_leaf(its[Len(its)][1], its[Len(its)][2])]
         ELSE [n1 EXCEPT !.array[pos + 1] = IHT_table(sub)]

\* lines 134-135 with the slot left as it was
IHT_remove_leaf_count_only(node, pos) ==
    [node EXCEPT !.count = node.count - 1]

\* lines 134-135 of __delitem__: the matching leaf is cleared, count -= 1
IHT_remove_leaf(node, pos) ==
    [node EXCEPT !.array[pos + 1] = NoneVal, !.count = node.count - 1]

\* lines 133-137 with the key of the leaf never compared
IHT_delete_leaf_unchecked(node, pos, item, key) ==
    [exc |-> NoExc, t |-> IHT_remove_leaf(node, pos), collapsed |-> FALSE]

\* lines 133-137 of __delitem__: the slot holds a leaf; it is removed when its key
\* is the one asked for, else KeyError is raised and nothing is changed
IHT_delete_leaf(node, pos, item, key) ==
    IF item.key = key
    THEN [exc |-> NoExc, t |-> IHT_remove_leaf(node, pos), collapsed |-> FALSE]
    ELSE [exc |-> "KeyError", t |-> node, collapsed |-> FALSE]

\* __delitem__; collapsed tells whether the call, or one it made, left a nested
\* table with one leaf (the case of line 130)
RECURSIVE IHT_delitem(_, _)
IHT_delitem(node, key) ==
    LET pos  == IHT_hash(node, key)
        item == node.array[pos + 1]
    IN  IF item = NoneVal THEN [exc |-> "KeyError", t |-> node, collapsed |-> FALSE]
        ELSE IF item.kind = "table"
        THEN LET original_length == IHT_len(item.node)
                 r  == IHT_delitem(item.node, key)
                 n1 == [node EXCEPT !.count = node.count - (original_length - IHT_len(r.t))]
             IN  IF r.exc # NoExc THEN [exc |-> r.exc, t |-> node, collapsed |-> FALSE]
                 ELSE [exc |-> NoExc, t |-> IHT_after_nested_delete(n1, pos, r.t),
                       collapsed |-> r.collapsed \/ IHT_len(r.t) = 1]
        ELSE IHT_delete_leaf(node, pos, item, key)

\* lines 184-186 with the key of the leaf reached never compared
IHT_location_of_item_unchecked(item, key, pos) ==
    IF item = NoneVal THEN [exc |-> "KeyError", positions |-> <<>>]
    ELSE [exc |-> NoExc, positions |-> <<pos>>]

\* lines 184-187 of get_location: the slot reached holds no nested table; KeyError
\* when it is empty or holds a leaf with another key, else the walk ends at pos
IHT_location_of_item(item, key, pos) ==
    IF item = NoneVal \/ item.key # key THEN [exc |-> "KeyError", positions |-> <<>>]
    ELSE [exc |-> NoExc, positions |-> <<pos>>]

\* get_location(key): the position taken in each table from the root down to the leaf
RECURSIVE IHT_get_location(_, _)
IHT_get_location(node, key) ==
    LET pos  == IHT_hash(node, key)
        item == node.array[pos + 1]
    IN  IF item.kind = "table"
        THEN LET r == IHT_get_location(item.node, key) IN
             IF r.exc # NoExc THEN r
             ELSE [exc |-> NoExc, positions |-> <<pos>> \o r.positions]
        ELSE IHT_location_of_item(item, key, pos)

\* ------------------------------------------------------------------------
\* The InfiniteHashTable under test
\* ------------------------------------------------------------------------
\* "a", "G", "ab", "abc", "b": "a" and "G" have the same length and the same
\* character code modulo 26 (19); "a", "ab", "abc" are prefixes of one another
IHT_Keys == {<<97>>, <<71>>, <<97, 98>>, <<97, 98, 99>>, <<98>>}

\* the values stored are 1..IHT_MaxVal; 0 stands for "no value" in the abstract map
IHT_MaxVal == 2

\* Ghost state:
\*   iht_abs      the abstract map: the value of the last set of each key, 0 once deleted
\*   iht_deleted  the keys deleted and not set again since
\*   iht_last     the last call: its kind, the exception it raised, whether a delete
\*                collapsed a nested table, and for a set whether the key was
\*                present before it and what len() was before it
IHT_Init ==
    /\ iht = IHT_init(0)
    /\ iht_abs = [k \in IHT_Keys |-> 0]
    /\ iht_deleted = {}
    /\ iht_last = [op |-> "init", exc |-> NoExc, collapsed |-> FALSE,
                   present |-> FALSE, len_before |-> 0]

\* table[key] = v
IHT_Set(k, v) ==
    /\ LET r == IHT_setitem(iht, k, v) IN
       /\ iht' = r.t
       /\ iht_last' = [op |-> "set", exc |-> r.exc, collapsed |-> FALSE,
                       present |-> IHT_contains(iht, k), len_before |-> IHT_len(iht)]
    /\ iht_abs' = [iht_abs EXCEPT ![k] = v]
    /\ iht_deleted' = iht_deleted \ {k}
    /\ UNCHANGED <<dkt_vars, cm_vars, co_vars, fp_vars, rt_vars>>

\* del table[key]
IHT_Del(k) ==
    /\ LET r == IHT_delitem(iht, k) IN
       /\ iht' = r.t
       /\ iht_last' = [op |-> "del", exc |-> r.exc, collapsed |-> r.collapsed,
                       present |-> FALSE, len_before |-> 0]
       /\ iht_abs' = IF r.exc = NoExc THEN [iht_abs EXCEPT ![k] = 0] ELSE iht_abs
       /\ iht_deleted' = IF r.exc = NoExc THEN iht_deleted \cup {k} ELSE iht_deleted
    /\ UNCHANGED <<dkt_vars, cm_vars, co_vars, fp_vars, rt_vars>>

IHT_Next ==
    \/ \E k \in IHT_Keys, v \in 1..IHT_MaxVal : IHT_Set(k, v)
    \/ \E k \in IHT_Keys : IHT_Del(k)

\* ------------------------------------------------------------------------
\* Properties of InfiniteHashTable
\* ------------------------------------------------------------------------
\* the nested tables reachable from a node, at every level
RECURSIVE IHT_nested(_)
IHT_nested(node) ==
    UNION {{node.array[i].node} \cup IHT_nested(node.array[i].node) :
              i \in {j \in 1..Len(node.array) : node.array[j].kind = "table"}}

\* the keys the table holds
IHT_Stored(node) == {k \in IHT_Keys : IHT_contains(node, k)}

\* C5: a key that was set and then deleted is not contained, and get raises
\* KeyError, in every later state until the key is set again.
C5_DeletedKeyStaysAbsent ==
    \A k \in iht_deleted :
        /\ ~IHT_contains(iht, k)
        /\ IHT_getitem(iht, k).exc = "KeyError"

\* C5 witness: a deleted key that lived in a nested table, whose slot of the root
\* still holds a nested table shared by other keys
C5_Witness ==
    \E k \in iht_deleted :
        /\ iht.array[IHT_hash(iht, k) + 1].kind = "table"
        /\ iht_last.op = "del" /\ iht_last.exc = NoExc

\* C6: the table refines the abstract map: get(key) returns the value of the most
\* recent set of the key unless it was deleted since, and raises KeyError
\* otherwise; a set of a key already present leaves len() unchanged.
C6_RefinesAbstractMap ==
    /\ \A k \in IHT_Keys :
          IF iht_abs[k] # 0
          THEN IHT_getitem(iht, k) = [exc |-> NoExc, value |-> iht_abs[k]]
          ELSE IHT_getitem(iht, k).exc = "KeyError"
    /\ (iht_last.op = "set" /\ iht_last.present) => IHT_len(iht) = iht_last.len_before

\* C7: no slot at any level holds a nested table whose count is 0 or 1, and a
\* nested table holds at least two leaves; so a delete that leaves one key of a
\* nested table leaves that key as a leaf of the parent, through every ancestor.
C7_NoNestedTableBelowTwo ==
    \A n \in IHT_nested(iht) : IHT_len(n) >= 2 /\ Len(IHT_items(n)) >= 2

\* C7 witness: a delete has just collapsed nested tables two levels deep and the
\* surviving key is a leaf of the root
C7_Witness ==
    /\ iht_last.op = "del" /\ iht_last.collapsed
    /\ iht_deleted = {<<97, 98, 99>>}
    /\ iht.array[IHT_hash(iht, <<97, 98>>) + 1] = IHT_leaf(<<97, 98>>, iht_abs[<<97, 98>>])

\* C8: the count of every node is the number of leaves reachable from it; len()
\* is the number of distinct keys stored and the number of pairs items() yields.
C8_CountIsLeaves ==
    /\ \A n \in {iht} \cup IHT_nested(iht) : n.count = Len(IHT_items(n))
    /\ IHT_len(iht) = Cardinality(IHT_Stored(iht))
    /\ IHT_len(iht) = Len(IHT_items(iht))

\* C8 witness: after a delete, three keys stored in nested tables of two levels
C8_Witness ==
    /\ iht_last.op = "del" /\ iht_last.exc = NoExc
    /\ IHT_len(iht) = 3
    /\ \E n \in IHT_nested(iht) : n.level = 2

\* C9: setting distinct keys terminates, and the nesting it creates is no deeper
\* than the keys are long.
C9_SetTerminatesWithinKeyLength ==
    /\ iht_last.exc # "RecursionError"
    /\ \A n \in IHT_nested(iht) : \E k \in IHT_Stored(iht) : n.level <= Len(k)

\* the nodes, at any level, one of whose slots holds the leaf of key
IHT_holders(key) ==
    {n \in {iht} \cup IHT_nested(iht) :
        \E i \in 1..Len(n.array) : n.array[i].kind = "leaf" /\ n.array[i].key = key}

\* the slot of key in a table of the given level (the hash of lines 37-48)
IHT_slot_at(key, level) ==
    IF level < Len(key) THEN key[level + 1] % 26 ELSE 26

\* C21: for a key that is present, get_location returns the hash positions of the
\* key at the levels 0..d, d the level of the node holding its leaf (d + 1
\* positions); for a key that is not present it raises KeyError.
C21_LocationIsHashPath ==
    \A k \in IHT_Keys :
        LET r == IHT_get_location(iht, k) IN
        IF IHT_holders(k) # {}
        THEN /\ r.exc = NoExc
             /\ \A n \in IHT_holders(k) : Len(r.positions) = n.level + 1
             /\ \A i \in 1..Len(r.positions) : r.positions[i] = IHT_slot_at(k, i - 1)
        ELSE r.exc = "KeyError"

\* C21 witness: "abc" is held two levels down, and "b" is looked up while
\* the slot it hashes to is empty, and "G" while its slot holds a table without it
C21_Witness ==
    /\ \E n \in IHT_holders(<<97, 98, 99>>) : n.level = 2
    /\ IHT_holders(<<98>>) = {}
    /\ IHT_holders(<<71>>) = {}
    /\ Len(IHT_get_location(iht, <<97, 98, 99>>).positions) = 3

\* the keys of the leaves held by a node and by its nested tables
RECURSIVE IHT_leaf_keys(_)
IHT_leaf_keys(node) ==
    UNION {IF node.array[i].kind = "leaf" THEN {node.array[i].key}
           ELSE IF node.array[i].kind = "table" THEN IHT_leaf_keys(node.array[i].node)
           ELSE {} : i \in 1..Len(node.array)}

\* every leaf below slot i - 1 of the node hashes to that slot at the node's level,
\* a nested table is one level deeper, and the same holds inside it
RECURSIVE IHT_routed(_)
IHT_routed(node) ==
    \A i \in 1..Len(node.array) :
        LET item == node.array[i] IN
        /\ item.kind = "leaf" => i - 1 = IHT_slot_at(item.key, node.level)
        /\ item.kind = "table" =>
              /\ item.node.level = node.level + 1
              /\ \A k \in IHT_leaf_keys(item.node) : i - 1 = IHT_slot_at(k, node.level)
              /\ IHT_routed(item.node)

\* C28: a nested table in a node of level L has level L + 1, and every leaf sits,
\* in its own node and in every ancestor, in the slot its key hashes to at that
\* node's level (ord(key[L]) mod 26, or 26 past the end of the key); this also
\* holds for a leaf a delete has moved up.
C28_LeavesRoutedByLevelHash ==
    iht.level = 0 /\ IHT_routed(iht)

\* C28 witness: a delete has just collapsed the table of level 2, and "ab" is now
\* a leaf of the table of level 1, beside "a" in slot 26
C28_Witness ==
    /\ iht_last.op = "del" /\ iht_last.collapsed
    /\ \E n \in IHT_nested(iht) :
          /\ n.level = 1
          /\ n.array[21] = IHT_leaf(<<97, 98>>, iht_abs[<<97, 98>>])
          /\ n.array[27].kind = "leaf"

\* C29: deleting a key that is not stored raises KeyError and leaves the whole
\* table unchanged, whether the miss is an empty slot, a leaf with another key, or
\* inside a nested table at any depth.
C29_DeleteOfAbsentKeyChangesNothing ==
    /\ \A k \in IHT_Keys \ IHT_leaf_keys(iht) :
          LET r == IHT_delitem(iht, k) IN r.exc = "KeyError" /\ r.t = iht
    /\ \A k \in IHT_leaf_keys(iht) : IHT_delitem(iht, k).exc = NoExc

\* C29 witness: a delete has just raised KeyError; "b" is absent with its slot of
\* the root empty, "G" and "abc" are absent and hash, inside the nested table, to
\* the leaves of "a" and of "ab"
C29_Witness ==
    /\ iht_last.op = "del" /\ iht_last.exc = "KeyError"
    /\ iht.array[21] = NoneVal
    /\ iht.array[20].kind = "table"
    /\ iht.array[20].node.array[27].kind = "leaf"
    /\ iht.array[20].node.array[27].key = <<97>>
    /\ iht.array[20].node.array[21].kind = "leaf"
    /\ iht.array[20].node.array[21].key = <<97, 98>>

\* ------------------------------------------------------------------------
\* mergesort (algorithms.mergesort) over strings, and str() of an integer
\* ------------------------------------------------------------------------
\* Python's <= on strings: lexicographic on the character codes
RECURSIVE str_le(_, _)
str_le(a, b) ==
    IF a = <<>> THEN TRUE
    ELSE IF b = <<>> THEN FALSE
    ELSE IF a[1] # b[1] THEN a[1] < b[1]
    ELSE str_le(Tail(a), Tail(b))

RECURSIVE merge(_, _)
merge(l1, l2) ==
    IF l1 = <<>> THEN l2
    ELSE IF l2 = <<>> THEN l1
    ELSE IF str_le(l1[1], l2[1]) THEN <<l1[1]>> \o merge(Tail(l1), l2)
    ELSE <<l2[1]>> \o merge(l1, Tail(l2))

RECURSIVE mergesort(_)
mergesort(l) ==
    IF Len(l) <= 1 THEN l
    ELSE LET break_index == (Len(l) + 1) \div 2 IN
         merge(mergesort(SubSeq(l, 1, break_index)),
               mergesort(SubSeq(l, break_index + 1, Len(l))))

\* str(n) for n >= 0: the decimal digits, most significant first ("0" is code 48)
RECURSIVE str(_)
str(n) == IF n < 10 THEN <<48 + n>> ELSE str(n \div 10) \o <<48 + (n % 10)>>

\* ------------------------------------------------------------------------
\* InfiniteHashTable.sort_keys
\* ------------------------------------------------------------------------
RECURSIVE gather_keys_from(_, _)

\* _gather_keys with the nested tables passed over
gather_keys_leaves_only(arr, i) ==
    IF i > Len(arr) THEN <<>>
    ELSE IF arr[i].kind = "leaf" THEN <<arr[i].key>> \o gather_keys_from(arr, i + 1)
         ELSE gather_keys_from(arr, i + 1)

\* the loop of _gather_keys from slot i on: the key of a leaf is appended, the keys
\* gathered from a nested table are appended in its own array order
gather_keys_from(arr, i) ==
    IF i > Len(arr) THEN <<>>
    ELSE IF arr[i].kind = "leaf" THEN <<arr[i].key>> \o gather_keys_from(arr, i + 1)
         ELSE IF arr[i].kind = "table"
              THEN gather_keys_from(arr[i].node.array, 1) \o gather_keys_from(arr, i + 1)
              ELSE gather_keys_from(arr, i + 1)

\* _gather_keys()
gather_keys(node) == gather_keys_from(node.array, 1)

\* sort_keys()
sort_keys(node) == mergesort(gather_keys(node))

\* C22: after any sets and deletes, sort_keys() returns every key stored exactly
\* once and no other key, in ascending lexicographic order.
C22_SortKeysIsSortedStoredKeys ==
    LET res == sort_keys(iht) IN
    /\ {res[i] : i \in 1..Len(res)} = IHT_Stored(iht)
    /\ Len(res) = Cardinality(IHT_Stored(iht))
    /\ \A i \in 1..Len(res) : \A j \in (i + 1)..Len(res) :
           res[i] # res[j] /\ str_le(res[i], res[j])

\* C22 witness: after a delete, three keys are stored, some in nested tables, and
\* the order they are gathered in is not the sorted one
C22_Witness ==
    /\ iht_last.op = "del" /\ iht_last.exc = NoExc
    /\ Len(sort_keys(iht)) = 3
    /\ IHT_nested(iht) # {}
    /\ gather_keys(iht) # sort_keys(iht)

\* the nesting structure of a node: which slots are empty, which hold the leaf of
\* which key, which hold a nested table of which structure (values and counts
\* left out)
RECURSIVE IHT_shape(_)
IHT_shape(node) ==
    [i \in 1..Len(node.array) |->
        IF node.array[i] = NoneVal THEN NoneVal
        ELSE IF node.array[i].kind = "leaf"
             THEN [kind |-> "leaf", key |-> node.array[i].key]
             ELSE [kind |-> "table", shape |-> IHT_shape(node.array[i].node)]]

\* the structure fixed by a set of keys alone: at each level a slot is empty when
\* no key of the set has it, a leaf when one key has it, a nested table of the
\* keys that have it when there are several
RECURSIVE IHT_shape_of_keys(_, _)
IHT_shape_of_keys(keys, level) ==
    [i \in 1..TABLE_SIZE |->
        LET here == {k \in keys : IHT_slot_at(k, level) = i - 1} IN
        IF here = {} \/ level > MaxRecursion THEN NoneVal
        ELSE IF Cardinality(here) = 1
             THEN [kind |-> "leaf", key |-> CHOOSE k \in here : TRUE]
             ELSE [kind |-> "table", shape |-> IHT_shape_of_keys(here, level + 1)]]

\* the location fixed by a set of keys alone: the slots of key down to the first
\* level at which no other key of the set shares all of them
RECURSIVE IHT_location_in_keys(_, _, _)
IHT_location_in_keys(keys, key, level) ==
    LET here == {k \in keys : IHT_slot_at(k, level) = IHT_slot_at(key, level)} IN
    IF here = {key} \/ level > MaxRecursion THEN <<IHT_slot_at(key, level)>>
    ELSE <<IHT_slot_at(key, level)>> \o IHT_location_in_keys(here, key, level + 1)

\* C35: the nesting structure of the table is the one fixed by the set of stored
\* keys, whatever sequence of sets and deletes led to it, and get_location of
\* every stored key is the location fixed by that set.
C35_ShapeFixedByStoredKeys ==
    /\ IHT_shape(iht) = IHT_shape_of_keys(IHT_Stored(iht), 0)
    /\ \A k \in IHT_Stored(iht) :
          IHT_get_location(iht, k) =
              [exc |-> NoExc, positions |-> IHT_location_in_keys(IHT_Stored(iht), k, 0)]

\* C35 witness: a delete has just flattened a nested table, keys deleted earlier
\* are absent, and the keys left still share a nested table
C35_Witness ==
    /\ iht_last.op = "del" /\ iht_last.exc = NoExc /\ iht_last.collapsed
    /\ Cardinality(iht_deleted) >= 2
    /\ Cardinality(IHT_Stored(iht)) >= 3
    /\ IHT_nested(iht) # {}

\* ------------------------------------------------------------------------
\* ComputerManager
\* ------------------------------------------------------------------------
\* __init__: self.computers = DoubleKeyTable()
CM_init == DKT_init(TABLE_SIZES, TABLE_SIZES)

\* add_computer(computer)
add_computer(cs, computer) ==
    DKT_setitem(cs, str(computer.hacking_difficulty), computer.name, computer)

\* remove_computer(computer)
remove_computer(cs, computer) ==
    DKT_delitem(cs, str(computer.hacking_difficulty), computer.name)

\* edit_computer(old_computer, new_computer): the delete, then the set when the
\* delete has not raised
edit_computer(cs, old_computer, new_computer) ==
    LET d == remove_computer(cs, old_computer) IN
    IF d.exc # NoExc THEN d
    ELSE add_computer(d.t, new_computer)

\* computers_with_difficulty(diff) without the try: the KeyError goes to the caller
computers_with_difficulty_uncaught(cs, diff) == DKT_values(cs, str(diff))

\* computers_with_difficulty(diff)
computers_with_difficulty(cs, diff) ==
    LET values == DKT_values(cs, str(diff)) IN
    IF values.exc = "KeyError" THEN [exc |-> NoExc, res |-> <<>>]
    ELSE values

\* computers.values(key) for each key of keys[i..]; a KeyError ends the call
RECURSIVE collect_groups(_, _, _)
collect_groups(cs, keys, i) ==
    IF i > Len(keys) THEN [exc |-> NoExc, group |-> <<>>]
    ELSE LET v    == DKT_values(cs, keys[i])
             rest == collect_groups(cs, keys, i + 1)
         IN  IF v.exc # NoExc THEN [exc |-> v.exc, group |-> <<>>]
             ELSE IF rest.exc # NoExc THEN rest
             ELSE [exc |-> NoExc, group |-> <<v.res>> \o rest.group]

\* group_by_difficulty()
group_by_difficulty(cs) == collect_groups(cs, mergesort(DKT_keys(cs)), 1)

\* The manager under test: computers named "c1", "c2" of these difficulties
CM_Names == {<<99, 49>>, <<99, 50>>}

CM_Difficulties == {5, 10, 20, 30, 40}

CM_Computers == [name : CM_Names, hacking_difficulty : CM_Difficulties]

\* Ghost state: cm_stored is the set of the computers added (or put by an edit)
\* and not removed (or replaced by an edit) since
CM_Init ==
    /\ computers = CM_init
    /\ cm_stored = {}

CM_Add(c) ==
    /\ \E r \in {add_computer(computers, c)} :
          /\ computers' = r.t
          /\ cm_stored' = IF r.exc = NoExc THEN cm_stored \cup {c} ELSE cm_stored
    /\ UNCHANGED <<dkt_vars, iht_vars, co_vars, fp_vars, rt_vars>>

CM_Remove(c) ==
    /\ \E r \in {remove_computer(computers, c)} :
          /\ computers' = r.t
          /\ cm_stored' = IF r.exc = NoExc THEN cm_stored \ {c} ELSE cm_stored
    /\ UNCHANGED <<dkt_vars, iht_vars, co_vars, fp_vars, rt_vars>>

CM_Edit(old, new) ==
    /\ \E r \in {edit_computer(computers, old, new)} :
          /\ computers' = r.t
          /\ cm_stored' = IF r.exc = NoExc THEN (cm_stored \ {old}) \cup {new}
                           ELSE cm_stored
    /\ UNCHANGED <<dkt_vars, iht_vars, co_vars, fp_vars, rt_vars>>

CM_Next ==
    \/ \E c \in CM_Computers : CM_Add(c)
    \/ \E c \in CM_Computers : CM_Remove(c)
    \/ \E old \in CM_Computers, new \in CM_Computers : CM_Edit(old, new)

\* C10: group_by_difficulty returns the groups in ascending order of the integer
\* hacking_difficulty, whatever the numbers of digits of the difficulties stored.
C10_GroupsAscendByDifficulty ==
    LET g == group_by_difficulty(computers) IN
    /\ g.exc = NoExc
    /\ \A i \in 1..Len(g.group) : \A j \in 1..Len(g.group) :
          i < j => \A x \in 1..Len(g.group[i]) : \A y \in 1..Len(g.group[j]) :
              g.group[i][x].hacking_difficulty < g.group[j][y].hacking_difficulty

\* C24: after any adds, removes and edits, computers_with_difficulty(d) returns
\* exactly the stored computers of hacking_difficulty d, each once, and the empty
\* list, without raising, when there is none.
C24_WithDifficultyReturnsStored ==
    \A d \in CM_Difficulties :
        LET r == computers_with_difficulty(computers, d) IN
        /\ r.exc = NoExc
        /\ SeqToSet(r.res) = {c \in cm_stored : c.hacking_difficulty = d}
        /\ Len(r.res) = Cardinality(SeqToSet(r.res))

\* ------------------------------------------------------------------------
\* ComputerOrganiser.  The Computer objects are referred to by their index in
\* CO_Objects; rank, the one field the organiser assigns, is kept apart in
\* co_rank, a function over the objects add_computers has ranked.
\* ------------------------------------------------------------------------
\* name, hacking_difficulty, hacked_value, risk_factor (in tenths): objects that
\* differ in difficulty, in risk only, in name only, and two that are equal
CO_Objects ==
    <<[name |-> <<66>>, hacking_difficulty |-> 2, hacked_value |-> 1, risk_factor |-> 5],
      [name |-> <<65>>, hacking_difficulty |-> 2, hacked_value |-> 1, risk_factor |-> 5],
      [name |-> <<66>>, hacking_difficulty |-> 2, hacked_value |-> 1, risk_factor |-> 0],
      [name |-> <<66, 65>>, hacking_difficulty |-> 1, hacked_value |-> 1, risk_factor |-> 9],
      [name |-> <<65>>, hacking_difficulty |-> 10, hacked_value |-> 1, risk_factor |-> 0],
      [name |-> <<65>>, hacking_difficulty |-> 2, hacked_value |-> 1, risk_factor |-> 5],
      [name |-> <<67>>, hacking_difficulty |-> 1, hacked_value |-> 1, risk_factor |-> 9]>>

\* the key of line 47: (x.hacking_difficulty, x.risk_factor, x.name)
sort_key(x) == <<CO_Objects[x].hacking_difficulty, CO_Objects[x].risk_factor, CO_Objects[x].name>>

\* Python's <= on two such tuples: the first component that differs decides
tuple_le(a, b) ==
    IF a[1] # b[1] THEN a[1] < b[1]
    ELSE IF a[2] # b[2] THEN a[2] < b[2]
    ELSE str_le(a[3], b[3])

\* merge and mergesort with key=sort_key
RECURSIVE merge_by_key(_, _)
merge_by_key(l1, l2) ==
    IF l1 = <<>> THEN l2
    ELSE IF l2 = <<>> THEN l1
    ELSE IF tuple_le(sort_key(l1[1]), sort_key(l2[1]))
         THEN <<l1[1]>> \o merge_by_key(Tail(l1), l2)
         ELSE <<l2[1]>> \o merge_by_key(l1, Tail(l2))

RECURSIVE mergesort_by_key(_)
mergesort_by_key(l) ==
    IF Len(l) <= 1 THEN l
    ELSE LET break_index == (Len(l) + 1) \div 2 IN
         merge_by_key(mergesort_by_key(SubSeq(l, 1, break_index)),
                      mergesort_by_key(SubSeq(l, break_index + 1, Len(l))))

\* binary_search(l, item) (algorithms.binary_search): the first position of l at
\* or after which item would sit
binary_search(l, item) ==
    Cardinality({i \in 1..Len(l) : l[i] < item})

\* `computer in self.computers`: list membership by ==, the equality of the fields
computer_in(computers_list, computer) ==
    \E i \in 1..Len(computers_list) : CO_Objects[computers_list[i]] = CO_Objects[computer]

\* cur_position(computer); an object that equals a stored one but was never
\* ranked itself has no rank to read
cur_position(computers_list, rank_list, rank, computer) ==
    IF ~computer_in(computers_list, computer) THEN [exc |-> "KeyError", res |-> 0]
    ELSE IF computer \notin DOMAIN rank THEN [exc |-> "AttributeError", res |-> 0]
    ELSE [exc |-> NoExc, res |-> binary_search(rank_list, rank[computer])]

\* lines 49-50 with the ranks counted from 1
enumerate_ranks_from_one(computers_list, rank) ==
    [c \in DOMAIN rank \cup SeqToSet(computers_list) |->
        IF \E i \in 1..Len(computers_list) : computers_list[i] = c
        THEN CHOOSE i \in 1..Len(computers_list) : computers_list[i] = c
        ELSE rank[c]]

\* lines 49-50 of add_computers: `for i, c in enumerate(self.computers): c.rank = i`
\* (an object held at several positions keeps the rank of the last one)
enumerate_ranks(computers_list, rank) ==
    [c \in DOMAIN rank \cup SeqToSet(computers_list) |->
        IF \E i \in 1..Len(computers_list) : computers_list[i] = c
        THEN (CHOOSE i \in 1..Len(computers_list) :
                 /\ computers_list[i] = c
                 /\ \A j \in (i + 1)..Len(computers_list) : computers_list[j] # c) - 1
        ELSE rank[c]]

\* add_computers(computers): the lists and the ranks after the call
add_computers(computers_list, rank, added) ==
    LET sorted == mergesort_by_key(computers_list \o added)
        rank1  == enumerate_ranks(sorted, rank)
    IN  [computers |-> sorted, rank |-> rank1,
         computers_rank_list |-> [i \in 1..Len(sorted) |-> rank1[sorted[i]]]]

\* The organiser under test: every call adds one or two objects not added before
CO_Pool == 1..Len(CO_Objects)

MaxAdded == 2

RECURSIVE SeqsOfDistinct(_, _)
SeqsOfDistinct(S, n) ==
    IF n = 0 THEN {<<>>}
    ELSE UNION {{<<x>> \o q : q \in SeqsOfDistinct(S \ {x}, n - 1)} : x \in S}

\* __init__; co_last is the list the last add_computers was given
CO_Init ==
    /\ co_computers = <<>>
    /\ co_rank_list = <<>>
    /\ co_rank = [c \in {} |-> 0]
    /\ co_last = <<>>

CO_AddComputers(added) ==
    /\ \E r \in {add_computers(co_computers, co_rank, added)} :
          /\ co_computers' = r.computers
          /\ co_rank' = r.rank
          /\ co_rank_list' = r.computers_rank_list
    /\ co_last' = added
    /\ UNCHANGED <<dkt_vars, iht_vars, cm_vars, fp_vars, rt_vars>>

CO_Next ==
    \E n \in 1..MaxAdded :
        \E added \in SeqsOfDistinct(CO_Pool \ {co_computers[i] : i \in 1..Len(co_computers)}, n) :
            CO_AddComputers(added)

\* (hacking_difficulty, risk_factor, name) of a is not after that of b
CO_NotAfter(a, b) ==
    LET x == CO_Objects[a]
        y == CO_Objects[b]
    IN  \/ x.hacking_difficulty < y.hacking_difficulty
        \/ /\ x.hacking_difficulty = y.hacking_difficulty
           /\ x.risk_factor < y.risk_factor
        \/ /\ x.hacking_difficulty = y.hacking_difficulty
           /\ x.risk_factor = y.risk_factor
           /\ str_le(x.name, y.name)

\* C23: after any add_computers calls the stored computers are in ascending order
\* of (hacking_difficulty, risk_factor, name), the rank of each is its index in
\* that order (the ranks are 0..n-1), and cur_position returns that index for
\* every stored computer, those of earlier calls included.
C23_RankIsSortedIndex ==
    /\ \A i \in 1..Len(co_computers) : \A j \in (i + 1)..Len(co_computers) :
          CO_NotAfter(co_computers[i], co_computers[j])
    /\ \A i \in 1..Len(co_computers) :
          /\ co_rank[co_computers[i]] = i - 1
          /\ cur_position(co_computers, co_rank_list, co_rank, co_computers[i])
                = [exc |-> NoExc, res |-> i - 1]
    /\ {co_rank[co_computers[i]] : i \in 1..Len(co_computers)} = 0..(Len(co_computers) - 1)

\* C23 witness: the last call has added two computers, one of them before a
\* computer of an earlier call, whose rank has therefore changed
C23_Witness ==
    /\ Len(co_last) = 2
    /\ Len(co_computers) >= 4
    /\ \E i \in 1..Len(co_computers) : \E j \in (i + 1)..Len(co_computers) :
          /\ co_computers[i] \in SeqToSet(co_last)
          /\ co_computers[j] \notin SeqToSet(co_last)

\* ------------------------------------------------------------------------
\* Routes (src/route.py): the dataclass values
\* ------------------------------------------------------------------------
\* Route(store): store is NoneVal, a RouteSeries or a RouteSplit
Route(store) == [kind |-> "Route", store |-> store]

\* RouteSeries(computer, following): following is a Route
RouteSeries(computer, following) ==
    [kind |-> "RouteSeries", computer |-> computer, following |-> following]

\* RouteSplit(top, bottom, following): the three are Routes
RouteSplit(top, bottom, following) ==
    [kind |-> "RouteSplit", top |-> top, bottom |-> bottom, following |-> following]

\* RouteSplit.remove_branch
remove_branch(self) == self.following.store

\* Route.add_all_computers, on the store of the route
RECURSIVE add_all_computers(_)
add_all_computers(store) ==
    IF store.kind = "RouteSplit"
    THEN add_all_computers(store.top.store) \o add_all_computers(store.bottom.store)
         \o add_all_computers(store.following.store)
    ELSE IF store.kind = "RouteSeries"
         THEN <<store.computer>> \o add_all_computers(store.following.store)
         ELSE <<>>

\* ------------------------------------------------------------------------
\* LinkedStack (data_structures/linked_stack.py): a sequence, top first.
\* pop of an empty stack raises.
\* ------------------------------------------------------------------------
LinkedStack == <<>>

LS_is_empty(s) == s = <<>>

LS_push(s, item) == <<item>> \o s

LS_pop(s) ==
    IF s = <<>> THEN [exc |-> "Exception", item |-> NoneVal, s |-> s]
    ELSE [exc |-> NoExc, item |-> Head(s), s |-> Tail(s)]

\* ------------------------------------------------------------------------
\* Viruses (src/virus.py).  A BranchDecision is "TOP", "BOTTOM" or "STOP".
\* ------------------------------------------------------------------------
\* VirusType.add_computer on the list self.computers
add_computer_to(computers_list, computer) == Append(computers_list, computer)

TopVirus_select_branch(top_branch, bottom_branch) == "TOP"

BottomVirus_select_branch(top_branch, bottom_branch) == "BOTTOM"

\* LazyVirus.select_branch taking the top branch on a tie and whenever only one
\* branch is a series
LazyVirus_select_branch_top_unless_harder(top_branch, bottom_branch) ==
    IF /\ top_branch.store.kind = "RouteSeries"
       /\ bottom_branch.store.kind = "RouteSeries"
       /\ top_branch.store.computer.hacking_difficulty
             > bottom_branch.store.computer.hacking_difficulty
    THEN "BOTTOM" ELSE "TOP"

\* LazyVirus.select_branch.  Reading hacking_difficulty of the None a series
\* without computer holds raises AttributeError, given here as the decision.
LazyVirus_select_branch(top_branch, bottom_branch) ==
    LET top_route == top_branch.store.kind = "RouteSeries"
        bot_route == bottom_branch.store.kind = "RouteSeries"
    IN  IF top_route /\ bot_route
        THEN LET top_comp == top_branch.store.computer
                 bot_comp == bottom_branch.store.computer
             IN  IF top_comp = NoneVal \/ bot_comp = NoneVal THEN "AttributeError"
                 ELSE IF top_comp.hacking_difficulty < bot_comp.hacking_difficulty THEN "TOP"
                 ELSE IF top_comp.hacking_difficulty > bot_comp.hacking_difficulty
                      THEN "BOTTOM"
                      ELSE "STOP"
        ELSE IF top_route THEN "BOTTOM" ELSE "TOP"

\* FancyVirus.CALC_STR.split(): the tokens of "7 3 + 8 - 2 * 2 /"
CALC_STR == <<"7", "3", "+", "8", "-", "2", "*", "2", "/">>

Digits == <<"0", "1", "2", "3", "4", "5", "6", "7", "8", "9">>

\* str.isdigit on a token of one character
isdigit(token) == \E i \in 1..Len(Digits) : Digits[i] = token

\* A float is modelled as the fraction num/den with den > 0 (every float the
\* postfix evaluation of integers with + - * / produces is such a fraction, up
\* to rounding).  float(token) of a digit:
float(token) == [num |-> (CHOOSE i \in 1..Len(Digits) : Digits[i] = token) - 1, den |-> 1]

\* op2 / op1 of two fractions, the denominator kept positive
float_div(op2, op1) ==
    IF op1.num > 0 THEN [num |-> op2.num * op1.den, den |-> op2.den * op1.num]
    ELSE [num |-> 0 - op2.num * op1.den, den |-> 0 - op2.den * op1.num]

\* the loop of FancyVirus.eval_postfix from token i on, then `return stack.pop()`
RECURSIVE eval_postfix_loop(_, _, _)
eval_postfix_loop(postfix_list, i, stack) ==
    IF i > Len(postfix_list) THEN LS_pop(stack).item
    ELSE LET token == postfix_list[i] IN
         IF isdigit(token)
         THEN eval_postfix_loop(postfix_list, i + 1, LS_push(stack, float(token)))
         ELSE LET p1  == LS_pop(stack)
                  op1 == p1.item
                  p2  == LS_pop(p1.s)
                  op2 == p2.item
                  res == IF token = "+"
                         THEN [num |-> op2.num * op1.den + op1.num * op2.den,
                               den |-> op2.den * op1.den]
                         ELSE IF token = "-"
                         THEN [num |-> op2.num * op1.den - op1.num * op2.den,
                               den |-> op2.den * op1.den]
                         ELSE IF token = "*"
                         THEN [num |-> op2.num * op1.num, den |-> op2.den * op1.den]
                         ELSE float_div(op2, op1)
              IN  eval_postfix_loop(postfix_list, i + 1, LS_push(p2.s, res))

\* FancyVirus.eval_postfix
eval_postfix(postfix_list) == eval_postfix_loop(postfix_list, 1, LinkedStack)

\* x < f and x > f for an integer x and a fraction f
int_lt_float(x, f) == x * f.den < f.num

int_gt_float(x, f) == x * f.den > f.num

\* FancyVirus.select_when_both_series
select_when_both_series(top_comp, bot_comp, threshold) ==
    IF int_lt_float(top_comp.hacked_value, threshold) THEN "TOP"
    ELSE IF int_gt_float(bot_comp.hacked_value, threshold) THEN "BOTTOM"
    ELSE "STOP"

\* FancyVirus.select_branch.  The isinstance tests are made on the branches
\* themselves, which are Route objects: a Route is neither a RouteSeries nor a
\* RouteSplit.
FancyVirus_select_branch(top_branch, bottom_branch) ==
    LET threshold == eval_postfix(CALC_STR)
        top_comp  == IF top_branch.kind = "RouteSeries" THEN top_branch.computer ELSE NoneVal
        bot_comp  == IF bottom_branch.kind = "RouteSeries" THEN bottom_branch.computer
                     ELSE NoneVal
        top_route == top_branch.kind = "RouteSplit"
        bot_route == bottom_branch.kind = "RouteSplit"
    IN  IF top_comp # NoneVal /\ bot_comp # NoneVal
        THEN select_when_both_series(top_comp, bot_comp, threshold)
        ELSE IF top_route /\ ~bot_route THEN "BOTTOM"
        ELSE IF ~top_route /\ bot_route THEN "TOP"
        ELSE "TOP"

\* a > b for two fractions
float_gt(a, b) == a.num * b.den > b.num * a.den

\* max(x, v / 2) for integers x and v: x unless v / 2 is greater
max_of_int_and_half(x, v) ==
    IF v > 2 * x THEN [num |-> v, den |-> 2] ELSE [num |-> x, den |-> 1]

\* risk_factor, held in tenths, as a float
risk_float(comp) == [num |-> comp.risk_factor, den |-> 10]

\* RiskAverseVirus.compare_by_risk_factor with two computers of risk 0 left to
\* the comparison of the values
compare_by_risk_factor_no_difficulty(top_comp, bot_comp) ==
    IF top_comp.risk_factor = 0 /\ bot_comp.risk_factor # 0 THEN "TOP"
    ELSE IF bot_comp.risk_factor = 0 /\ top_comp.risk_factor # 0 THEN "BOTTOM"
    ELSE "None"

\* RiskAverseVirus.compare_by_risk_factor; "None" is the None it returns when it
\* does not decide
compare_by_risk_factor(top_comp, bot_comp) ==
    IF top_comp.risk_factor = 0 /\ bot_comp.risk_factor # 0 THEN "TOP"
    ELSE IF bot_comp.risk_factor = 0 /\ top_comp.risk_factor # 0 THEN "BOTTOM"
    ELSE IF top_comp.risk_factor = 0 /\ bot_comp.risk_factor = 0
    THEN IF top_comp.hacking_difficulty < bot_comp.hacking_difficulty THEN "TOP"
         ELSE IF bot_comp.hacking_difficulty < top_comp.hacking_difficulty THEN "BOTTOM"
         ELSE "None"
    ELSE "None"

\* the value compare_by_secret_value gives a computer: max(hacking_difficulty,
\* hacked_value / 2), divided by risk_factor when that is not 0.0
secret_value(comp) ==
    LET value == max_of_int_and_half(comp.hacking_difficulty, comp.hacked_value) IN
    IF comp.risk_factor # 0 THEN float_div(value, risk_float(comp)) ELSE value

\* RiskAverseVirus.compare_by_secret_value
compare_by_secret_value(top_comp, bot_comp) ==
    LET top_value == secret_value(top_comp)
        bot_value == secret_value(bot_comp)
    IN  IF float_gt(top_value, bot_value) THEN "TOP"
        ELSE IF float_gt(bot_value, top_value) THEN "BOTTOM"
        ELSE IF top_comp.risk_factor < bot_comp.risk_factor THEN "TOP"
        ELSE IF bot_comp.risk_factor < top_comp.risk_factor THEN "BOTTOM"
        ELSE "STOP"

\* RiskAverseVirus.select_branch; a Computer object is truthy, None is not
RiskAverseVirus_select_branch(top_branch, bottom_branch) ==
    LET top_comp == IF top_branch.store.kind = "RouteSeries"
                    THEN top_branch.store.computer ELSE NoneVal
        bot_comp == IF bottom_branch.store.kind = "RouteSeries"
                    THEN bottom_branch.store.computer ELSE NoneVal
    IN  IF top_comp # NoneVal /\ bot_comp # NoneVal
        THEN LET ret == compare_by_risk_factor(top_comp, bot_comp) IN
             IF ret # "None" THEN ret
             ELSE compare_by_secret_value(top_comp, bot_comp)
        ELSE IF /\ top_branch.store.kind = "RouteSeries"
                /\ bottom_branch.store.kind = "RouteSplit" THEN "BOTTOM"
        ELSE IF /\ top_branch.store.kind = "RouteSplit"
                /\ bottom_branch.store.kind = "RouteSeries" THEN "TOP"
        ELSE "TOP"

\* virus_type.select_branch(top, bottom), dispatched on the class of the virus
select_branch(virus_type, top_branch, bottom_branch) ==
    IF virus_type = "TopVirus" THEN TopVirus_select_branch(top_branch, bottom_branch)
    ELSE IF virus_type = "BottomVirus"
    THEN BottomVirus_select_branch(top_branch, bottom_branch)
    ELSE IF virus_type = "LazyVirus" THEN LazyVirus_select_branch(top_branch, bottom_branch)
    ELSE IF virus_type = "RiskAverseVirus"
    THEN RiskAverseVirus_select_branch(top_branch, bottom_branch)
    ELSE FancyVirus_select_branch(top_branch, bottom_branch)

\* ------------------------------------------------------------------------
\* Route.follow_path: one operator per branch of the body of `while True`.
\* Each gives the locals after the iteration, pc "loop" to iterate again,
\* "done" after `break`, "raised" when the iteration raises.
\* ------------------------------------------------------------------------
\* the split's following is pushed, then the branches are taken the other way round
follow_path_split_exchanged(virus_type, store, stack) ==
    LET decision == select_branch(virus_type, store.top, store.bottom)
        pushed   == IF decision = "AttributeError" THEN stack
                    ELSE LS_push(stack, remove_branch(store))
    IN  [decision |-> decision, temp_stack |-> pushed,
         temp_store |-> IF decision = "TOP" THEN store.bottom.store
                        ELSE IF decision = "BOTTOM" THEN store.top.store
                        ELSE store,
         pc |-> IF decision \in {"TOP", "BOTTOM"} THEN "loop"
                ELSE IF decision = "STOP" THEN "done" ELSE "raised"]

\* the split's iteration going on with the split's following route after STOP
follow_path_split_stop_goes_on(virus_type, store, stack) ==
    LET decision == select_branch(virus_type, store.top, store.bottom)
        pushed   == IF decision = "AttributeError" THEN stack
                    ELSE LS_push(stack, remove_branch(store))
    IN  [decision |-> decision, temp_stack |-> pushed,
         temp_store |-> IF decision = "TOP" THEN store.top.store
                        ELSE IF decision = "BOTTOM" THEN store.bottom.store
                        ELSE store.following.store,
         pc |-> IF decision \in {"TOP", "BOTTOM", "STOP"} THEN "loop" ELSE "raised"]

\* `if isinstance(temp_store, RouteSplit):`
follow_path_split(virus_type, store, stack) ==
    LET decision == select_branch(virus_type, store.top, store.bottom)
        pushed   == IF decision = "AttributeError" THEN stack
                    ELSE LS_push(stack, remove_branch(store))
    IN  [decision |-> decision, temp_stack |-> pushed,
         temp_store |-> IF decision = "TOP" THEN store.top.store
                        ELSE IF decision = "BOTTOM" THEN store.bottom.store
                        ELSE store,
         pc |-> IF decision \in {"TOP", "BOTTOM"} THEN "loop"
                ELSE IF decision = "STOP" THEN "done" ELSE "raised"]

\* the series' iteration reading the top of the stack without removing it
follow_path_series_pop_keeps_item(store, stack) ==
    IF store.following.store # NoneVal
    THEN [temp_store |-> store.following.store, temp_stack |-> stack, pc |-> "loop"]
    ELSE IF ~LS_is_empty(stack)
    THEN [temp_store |-> LS_pop(stack).item, temp_stack |-> stack, pc |-> "loop"]
    ELSE [temp_store |-> store, temp_stack |-> stack, pc |-> "done"]

\* `elif isinstance(temp_store, RouteSeries):`, after virus_type.add_computer
follow_path_series(store, stack) ==
    IF store.following.store # NoneVal
    THEN [temp_store |-> store.following.store, temp_stack |-> stack, pc |-> "loop"]
    ELSE IF ~LS_is_empty(stack)
    THEN [temp_store |-> LS_pop(stack).item, temp_stack |-> LS_pop(stack).s, pc |-> "loop"]
    ELSE [temp_store |-> store, temp_stack |-> stack, pc |-> "done"]

\* `else: temp_store = temp_stack.pop()`
follow_path_none(store, stack) ==
    LET p == LS_pop(stack) IN
    IF p.exc # NoExc
    THEN [temp_store |-> store, temp_stack |-> stack, pc |-> "raised"]
    ELSE [temp_store |-> p.item, temp_stack |-> p.s, pc |-> "loop"]

\* ------------------------------------------------------------------------
\* The traversals under test: follow_path of every route of at most
\* MaxRouteNodes series and splits over two computers, and of the routes with
\* nested splits of RT_NestedSplitRoutes, by a fresh virus of each class.
\* ------------------------------------------------------------------------
\* name, hacking_difficulty, hacked_value, risk_factor (in tenths)
RT_Computers ==
    {[name |-> <<65>>, hacking_difficulty |-> 1, hacked_value |-> 1, risk_factor |-> 0],
     [name |-> <<66>>, hacking_difficulty |-> 2, hacked_value |-> 3, risk_factor |-> 5]}

MaxRouteNodes == 4

\* the stores made of exactly n RouteSeries and RouteSplit objects
RECURSIVE RouteStoresOfSize(_)
RouteStoresOfSize(n) ==
    IF n = 0 THEN {NoneVal}
    ELSE {RouteSeries(c, Route(f)) : c \in RT_Computers, f \in RouteStoresOfSize(n - 1)}
         \cup UNION {UNION {{RouteSplit(Route(t), Route(b), Route(f)) :
                                t \in RouteStoresOfSize(i),
                                b \in RouteStoresOfSize(j),
                                f \in RouteStoresOfSize(n - 1 - i - j)} :
                            j \in 0..(n - 1 - i)} :
                     i \in 0..(n - 1)}

RT_Routes == {Route(st) : st \in UNION {RouteStoresOfSize(n) : n \in 0..MaxRouteNodes}}

\* the routes with a split whose top branch is a split between two computers,
\* both splits followed by a computer
RT_NestedSplitRoutes ==
    {Route(RouteSplit(
         Route(RouteSplit(Route(RouteSeries(c1, Route(NoneVal))),
                          Route(RouteSeries(c2, Route(NoneVal))),
                          Route(RouteSeries(c3, Route(NoneVal))))),
         Route(NoneVal),
         Route(RouteSeries(c4, Route(NoneVal))))) :
     c1 \in RT_Computers, c2 \in RT_Computers, c3 \in RT_Computers, c4 \in RT_Computers}

VirusTypes == {"TopVirus", "BottomVirus", "LazyVirus", "RiskAverseVirus", "FancyVirus"}

\* no traversal is running: the locals of follow_path hold nothing
FP_Idle ==
    /\ temp_store = NoneVal
    /\ temp_stack = LinkedStack
    /\ fp_pc = "idle"
    /\ fp_last = [made |-> FALSE]

\* the route is the empty route and the virus a fresh TopVirus
FP_Init ==
    /\ route = Route(NoneVal)
    /\ virus = [type |-> "TopVirus", computers |-> <<>>]
    /\ FP_Idle

\* any route under test and a fresh virus of any class
FP_InitAny ==
    /\ route \in RT_Routes \cup RT_NestedSplitRoutes
    /\ virus \in [type : VirusTypes, computers : {<<>>}]
    /\ FP_Idle

\* The splits offered to a RiskAverseVirus: computers of every combination of
\* two difficulties, two values (one whose half exceeds both difficulties) and
\* the risk factors 0.0, 0.5 and 1.0; branches that are empty, begin with one of
\* these computers, or begin with a split
RA_Computers ==
    [name : {<<65>>}, hacking_difficulty : {1, 2}, hacked_value : {1, 6},
     risk_factor : {0, 5, 10}]

RA_Branches ==
    {Route(NoneVal), Route(RouteSplit(Route(NoneVal), Route(NoneVal), Route(NoneVal)))}
    \cup {Route(RouteSeries(c, Route(NoneVal))) : c \in RA_Computers}

RA_Routes == {Route(RouteSplit(t, b, Route(NoneVal))) : t \in RA_Branches, b \in RA_Branches}

FP_InitRiskAverse ==
    /\ route \in RA_Routes
    /\ virus = [type |-> "RiskAverseVirus", computers |-> <<>>]
    /\ FP_Idle

\* route.follow_path(virus) is called: lines 119-120
FP_Call ==
    /\ fp_pc = "idle"
    /\ temp_store' = route.store
    /\ temp_stack' = LinkedStack
    /\ fp_pc' = "loop"
    /\ UNCHANGED <<route, virus, fp_last>>
    /\ UNCHANGED <<dkt_vars, iht_vars, cm_vars, co_vars, rt_vars>>

\* an iteration on a RouteSplit; fp_last keeps the branches offered and the decision
FP_Split ==
    /\ fp_pc = "loop"
    /\ temp_store.kind = "RouteSplit"
    /\ \E r \in {follow_path_split(virus.type, temp_store, temp_stack)} :
          /\ temp_store' = r.temp_store
          /\ temp_stack' = r.temp_stack
          /\ fp_pc' = r.pc
          /\ fp_last' = [made |-> TRUE, top |-> temp_store.top,
                         bottom |-> temp_store.bottom, decision |-> r.decision]
    /\ UNCHANGED <<route, virus>>
    /\ UNCHANGED <<dkt_vars, iht_vars, cm_vars, co_vars, rt_vars>>

\* an iteration on a RouteSeries
FP_Series ==
    /\ fp_pc = "loop"
    /\ temp_store.kind = "RouteSeries"
    /\ virus' = [virus EXCEPT !.computers = add_computer_to(@, temp_store.computer)]
    /\ \E r \in {follow_path_series(temp_store, temp_stack)} :
          /\ temp_store' = r.temp_store
          /\ temp_stack' = r.temp_stack
          /\ fp_pc' = r.pc
    /\ UNCHANGED <<route, fp_last>>
    /\ UNCHANGED <<dkt_vars, iht_vars, cm_vars, co_vars, rt_vars>>

\* an iteration on None
FP_None ==
    /\ fp_pc = "loop"
    /\ temp_store = NoneVal
    /\ \E r \in {follow_path_none(temp_store, temp_stack)} :
          /\ temp_store' = r.temp_store
          /\ temp_stack' = r.temp_stack
          /\ fp_pc' = r.pc
    /\ UNCHANGED <<route, virus, fp_last>>
    /\ UNCHANGED <<dkt_vars, iht_vars, cm_vars, co_vars, rt_vars>>

FP_Next == FP_Call \/ FP_Split \/ FP_Series \/ FP_None

\* ------------------------------------------------------------------------
\* Properties of follow_path and of the viruses
\* ------------------------------------------------------------------------
\* the computers on the path that takes branch `side` ("TOP" or "BOTTOM") of
\* every split: a series gives its computer then its following route, a split
\* gives its branch `side` then its following route
RECURSIVE PathTaking(_, _)
PathTaking(store, side) ==
    IF store.kind = "RouteSeries"
    THEN <<store.computer>> \o PathTaking(store.following.store, side)
    ELSE IF store.kind = "RouteSplit"
    THEN PathTaking(IF side = "TOP" THEN store.top.store ELSE store.bottom.store, side)
         \o PathTaking(store.following.store, side)
    ELSE <<>>

\* C11: when follow_path has ended, a TopVirus has visited, in order, each
\* series computer on the path and at every split the top branch then the
\* split's following route, never the bottom branch; a BottomVirus the same with
\* the bottom branch.  Pending followings resume innermost first.
C11_TopAndBottomVisitOrder ==
    (fp_pc \in {"done", "raised"}) =>
        /\ virus.type = "TopVirus" => virus.computers = PathTaking(route.store, "TOP")
        /\ virus.type = "BottomVirus" => virus.computers = PathTaking(route.store, "BOTTOM")

\* C11 witness: a TopVirus has ended on a split whose top branch is itself a
\* split, having visited the inner following then the outer one
C11_Witness ==
    /\ fp_pc = "done"
    /\ virus.type = "TopVirus"
    /\ route.store.kind = "RouteSplit"
    /\ route.store.top.store.kind = "RouteSplit"
    /\ Len(virus.computers) = 2
    /\ virus.computers[1] # virus.computers[2]

\* C13: follow_path never ends by raising, whatever the route and the virus.
C13_FollowPathEndsNormally == fp_pc # "raised"

\* C20: the postfix expression evaluates to the threshold 2, and a FancyVirus
\* offered two branches that both begin with a computer decides TOP if the top
\* computer's hacked_value is below 2, otherwise BOTTOM if the bottom
\* computer's is above 2, otherwise STOP.
C20_FancyDecidesByThreshold ==
    /\ eval_postfix(CALC_STR).num = 2 * eval_postfix(CALC_STR).den
    /\ (/\ fp_last.made
        /\ virus.type = "FancyVirus"
        /\ fp_last.top.store.kind = "RouteSeries"
        /\ fp_last.bottom.store.kind = "RouteSeries") =>
            fp_last.decision =
                IF fp_last.top.store.computer.hacked_value < 2 THEN "TOP"
                ELSE IF fp_last.bottom.store.computer.hacked_value > 2 THEN "BOTTOM"
                ELSE "STOP"

\* C30: when the policy returns STOP at a split, follow_path ends at once: it has
\* ended in the state the decision leaves, and no computer is visited afterwards,
\* so none of the split's top, bottom or following, nor of a pending outer
\* following.
C30_StopEndsFollowPath ==
    /\ []((fp_last.made /\ fp_last.decision = "STOP") => fp_pc = "done")
    /\ [][(fp_last.made /\ fp_last.decision = "STOP") => virus' = virus]_vars

\* C30 witness: a LazyVirus has stopped at the inner split of a nested route while
\* the computers of the inner and of the outer following were still to visit
C30_Witness ==
    /\ fp_pc = "done"
    /\ fp_last.made /\ fp_last.decision = "STOP"
    /\ route \in RT_NestedSplitRoutes
    /\ virus.type = "LazyVirus"
    /\ Len(temp_stack) = 2
    /\ temp_stack[1].kind = "RouteSeries" /\ temp_stack[2].kind = "RouteSeries"
    /\ virus.computers = <<>>

\* a branch begins with a computer: its store is a series holding one
BeginsWithComputer(branch) ==
    branch.store.kind = "RouteSeries" /\ branch.store.computer # NoneVal

RA_TwiceMax(c) ==
    IF c.hacked_value > 2 * c.hacking_difficulty THEN c.hacked_value
    ELSE 2 * c.hacking_difficulty

\* the score of a is higher than that of b: max(hacking_difficulty,
\* hacked_value / 2) divided by risk_factor, undivided where the risk factor is 0
RA_ScoreHigher(a, b) ==
    IF a.risk_factor # 0 /\ b.risk_factor # 0
    THEN RA_TwiceMax(a) * b.risk_factor > RA_TwiceMax(b) * a.risk_factor
    ELSE RA_TwiceMax(a) > RA_TwiceMax(b)

\* the decision by score, then by lower risk factor, else STOP
RA_ByScoreThenRisk(t, b) ==
    IF RA_ScoreHigher(t, b) THEN "TOP"
    ELSE IF RA_ScoreHigher(b, t) THEN "BOTTOM"
    ELSE IF t.risk_factor < b.risk_factor THEN "TOP"
    ELSE IF b.risk_factor < t.risk_factor THEN "BOTTOM"
    ELSE "STOP"

\* a RiskAverseVirus has just decided at a split whose branches both begin with a
\* computer
RA_DecidedBetweenComputers ==
    /\ fp_last.made /\ virus.type = "RiskAverseVirus"
    /\ BeginsWithComputer(fp_last.top) /\ BeginsWithComputer(fp_last.bottom)

\* C32 as stated: between two computers RiskAverseVirus selects the one of risk
\* factor 0 if exactly one has it; otherwise the higher score, on equal scores
\* the lower risk factor, and STOP only when scores and risk factors are equal.
C32_AsStated ==
    RA_DecidedBetweenComputers =>
        LET t == fp_last.top.store.computer
            b == fp_last.bottom.store.computer
        IN  fp_last.decision =
                IF t.risk_factor = 0 /\ b.risk_factor # 0 THEN "TOP"
                ELSE IF b.risk_factor = 0 /\ t.risk_factor # 0 THEN "BOTTOM"
                ELSE RA_ByScoreThenRisk(t, b)

\* C32: between two computers RiskAverseVirus selects the one of risk factor 0
\* if exactly one has it; if both have risk factor 0, the one of strictly lower
\* hacking_difficulty when the difficulties differ; in every other case the
\* higher score, on equal scores the lower risk factor, and STOP only when
\* scores and risk factors are equal.
C32_RiskAverseDecision ==
    RA_DecidedBetweenComputers =>
        LET t == fp_last.top.store.computer
            b == fp_last.bottom.store.computer
        IN  fp_last.decision =
                IF t.risk_factor = 0 /\ b.risk_factor # 0 THEN "TOP"
                ELSE IF b.risk_factor = 0 /\ t.risk_factor # 0 THEN "BOTTOM"
                ELSE IF /\ t.risk_factor = 0 /\ b.risk_factor = 0
                        /\ t.hacking_difficulty # b.hacking_difficulty
                THEN IF t.hacking_difficulty < b.hacking_difficulty THEN "TOP" ELSE "BOTTOM"
                ELSE RA_ByScoreThenRisk(t, b)

\* C32 witness: both computers have risk factor 0 and the virus has taken the top
\* one, of lower difficulty, although the bottom one has the higher score
C32_Witness ==
    /\ RA_DecidedBetweenComputers
    /\ fp_last.top.store.computer.risk_factor = 0
    /\ fp_last.bottom.store.computer.risk_factor = 0
    /\ RA_ScoreHigher(fp_last.bottom.store.computer, fp_last.top.store.computer)
    /\ fp_last.decision = "TOP"

\* ------------------------------------------------------------------------
\* Routes as objects.  heap is the sequence of the Route, RouteSeries and
\* RouteSplit objects built so far; an object is referred to by its index and
\* None by 0, so the fields store, following, top and bottom hold indices.
\* Every edit operation gives the heap after it and the reference it returns.
\* ------------------------------------------------------------------------
None == 0

\* the value an object stands for: its references replaced by what they refer to
RECURSIVE Deref(_, _)
Deref(h, ref) ==
    IF ref = None THEN NoneVal
    ELSE IF h[ref].kind = "Route" THEN Route(Deref(h, h[ref].store))
    ELSE IF h[ref].kind = "RouteSeries"
    THEN RouteSeries(h[ref].computer, Deref(h, h[ref].following))
    ELSE RouteSplit(Deref(h, h[ref].top), Deref(h, h[ref].bottom),
                    Deref(h, h[ref].following))

\* the constructor call: a new object at the end of the heap
new(h, object) == Append(h, object)

\* the receiver itself is given the new series as its store, and returned
Route_add_computer_before_in_place(h, self, computer) ==
    LET h1 == new(h, Route(h[self].store))
        h2 == new(h1, RouteSeries(computer, Len(h1)))
    IN  [exc |-> NoExc, heap |-> [h2 EXCEPT ![self] = Route(Len(h2))], result |-> self]

\* Route.add_computer_before: Route(RouteSeries(computer, self))
Route_add_computer_before(h, self, computer) ==
    LET h1 == new(h, RouteSeries(computer, self))
        h2 == new(h1, Route(Len(h1)))
    IN  [exc |-> NoExc, heap |-> h2, result |-> Len(h2)]

\* Route.add_empty_branch_before: Route(RouteSplit(Route(None), Route(None), self))
Route_add_empty_branch_before(h, self) ==
    LET h1 == new(h, Route(None))
        h2 == new(h1, Route(None))
        h3 == new(h2, RouteSplit(Len(h1), Len(h2), self))
        h4 == new(h3, Route(Len(h3)))
    IN  [exc |-> NoExc, heap |-> h4, result |-> Len(h4)]

\* RouteSeries.remove_computer without the test of self.computer
Series_remove_computer_unchecked(h, self) ==
    LET h1 == new(h, RouteSeries(NoneVal, h[self].following))
    IN  [exc |-> NoExc, heap |-> h1, result |-> Len(h1)]

\* RouteSeries.remove_computer
Series_remove_computer(h, self) ==
    IF h[self].computer = NoneVal THEN [exc |-> "ValueError", heap |-> h, result |-> None]
    ELSE LET h1 == new(h, RouteSeries(NoneVal, h[self].following))
         IN  [exc |-> NoExc, heap |-> h1, result |-> Len(h1)]

\* RouteSeries.add_computer_before: RouteSeries(computer, Route(self))
Series_add_computer_before(h, self, computer) ==
    LET h1 == new(h, Route(self))
        h2 == new(h1, RouteSeries(computer, Len(h1)))
    IN  [exc |-> NoExc, heap |-> h2, result |-> Len(h2)]

\* RouteSeries.add_computer_after:
\* RouteSeries(self.computer, Route(RouteSeries(computer, self.following)))
Series_add_computer_after(h, self, computer) ==
    LET h1 == new(h, RouteSeries(computer, h[self].following))
        h2 == new(h1, Route(Len(h1)))
        h3 == new(h2, RouteSeries(h[self].computer, Len(h2)))
    IN  [exc |-> NoExc, heap |-> h3, result |-> Len(h3)]

\* RouteSeries.add_empty_branch_before: RouteSplit(Route(None), Route(None), Route(self))
Series_add_empty_branch_before(h, self) ==
    LET h1 == new(h, Route(None))
        h2 == new(h1, Route(None))
        h3 == new(h2, Route(self))
        h4 == new(h3, RouteSplit(Len(h1), Len(h2), Len(h3)))
    IN  [exc |-> NoExc, heap |-> h4, result |-> Len(h4)]

\* RouteSeries.add_empty_branch_after:
\* RouteSeries(self.computer, Route(RouteSplit(Route(None), Route(None), self.following)))
Series_add_empty_branch_after(h, self) ==
    LET h1 == new(h, Route(None))
        h2 == new(h1, Route(None))
        h3 == new(h2, RouteSplit(Len(h1), Len(h2), h[self].following))
        h4 == new(h3, Route(Len(h3)))
        h5 == new(h4, RouteSeries(h[self].computer, Len(h4)))
    IN  [exc |-> NoExc, heap |-> h5, result |-> Len(h5)]

\* RouteSplit.remove_branch on the heap: the store of the following route
Split_remove_branch(h, self) ==
    [exc |-> NoExc, heap |-> h, result |-> h[h[self].following].store]

\* ------------------------------------------------------------------------
\* The routes under edit: from one empty Route, any edit operation on any
\* object built so far while the heap holds at most MaxHeapObjects objects,
\* add_all_computers of any Route, and follow_path of any Route by a fresh
\* virus.  rt_result is the reference the last edit operation returned.
\* ------------------------------------------------------------------------
MaxHeapObjects == 8

RT_Init ==
    /\ heap = <<Route(None)>>
    /\ rt_result = 1

RT_Refs(kind) == {ref \in 1..Len(heap) : heap[ref].kind = kind}

\* an edit operation is called: the heap after it and the reference it returned
\* (None when it raised)
RT_Call(r) ==
    /\ fp_pc = "idle"
    /\ Len(r.heap) <= MaxHeapObjects
    /\ heap' = r.heap
    /\ rt_result' = r.result
    /\ UNCHANGED fp_vars
    /\ UNCHANGED <<dkt_vars, iht_vars, cm_vars, co_vars>>

RT_RouteAddComputerBefore ==
    \E self \in RT_Refs("Route"), c \in RT_Computers :
        RT_Call(Route_add_computer_before(heap, self, c))

RT_RouteAddEmptyBranchBefore ==
    \E self \in RT_Refs("Route") : RT_Call(Route_add_empty_branch_before(heap, self))

RT_SeriesRemoveComputer ==
    \E self \in RT_Refs("RouteSeries") : RT_Call(Series_remove_computer(heap, self))

RT_SeriesAddComputerBefore ==
    \E self \in RT_Refs("RouteSeries"), c \in RT_Computers :
        RT_Call(Series_add_computer_before(heap, self, c))

RT_SeriesAddComputerAfter ==
    \E self \in RT_Refs("RouteSeries"), c \in RT_Computers :
        RT_Call(Series_add_computer_after(heap, self, c))

RT_SeriesAddEmptyBranchBefore ==
    \E self \in RT_Refs("RouteSeries") : RT_Call(Series_add_empty_branch_before(heap, self))

RT_SeriesAddEmptyBranchAfter ==
    \E self \in RT_Refs("RouteSeries") : RT_Call(Series_add_empty_branch_after(heap, self))

RT_SplitRemoveBranch ==
    \E self \in RT_Refs("RouteSplit") : RT_Call(Split_remove_branch(heap, self))

\* route.add_all_computers() of a Route of the heap: the call reads the objects
\* and returns a list, which is not kept
RT_AddAllComputers ==
    \E self \in RT_Refs("Route") :
        /\ fp_pc = "idle"
        /\ Len(add_all_computers(Deref(heap, self).store)) >= 0
        /\ heap' = heap
        /\ rt_result' = None
        /\ UNCHANGED fp_vars
        /\ UNCHANGED <<dkt_vars, iht_vars, cm_vars, co_vars>>

\* route.follow_path(virus) is called on a Route of the heap with a fresh virus:
\* lines 119-120 on the objects the Route refers to
RT_FollowPath ==
    \E self \in RT_Refs("Route"), vt \in VirusTypes :
        /\ fp_pc = "idle"
        /\ route' = Deref(heap, self)
        /\ virus' = [type |-> vt, computers |-> <<>>]
        /\ temp_store' = Deref(heap, heap[self].store)
        /\ temp_stack' = LinkedStack
        /\ fp_pc' = "loop"
        /\ UNCHANGED <<fp_last, heap, rt_result>>
        /\ UNCHANGED <<dkt_vars, iht_vars, cm_vars, co_vars>>

RT_Next ==
    \/ RT_RouteAddComputerBefore
    \/ RT_RouteAddEmptyBranchBefore
    \/ RT_SeriesRemoveComputer
    \/ RT_SeriesAddComputerBefore
    \/ RT_SeriesAddComputerAfter
    \/ RT_SeriesAddEmptyBranchBefore
    \/ RT_SeriesAddEmptyBranchAfter
    \/ RT_SplitRemoveBranch
    \/ RT_AddAllComputers
    \/ RT_FollowPath
    \/ FP_Next

\* C12: routes are never mutated.  In every step, every object of the heap is
\* after the step what it was before (so is every route value built from it);
\* a step that builds objects (an edit operation that returns) gives a reference
\* to an object that did not exist before; a step of follow_path leaves the
\* route it follows as it was and at most appends one computer to the virus's
\* list.
C12_RoutesNeverMutated ==
    [][/\ Len(heap') >= Len(heap)
       /\ \A ref \in 1..Len(heap) :
             heap'[ref] = heap[ref] /\ Deref(heap', ref) = Deref(heap, ref)
       /\ Len(heap') > Len(heap) => rt_result' > Len(heap)
       /\ (fp_pc = "loop") =>
             /\ route' = route
             /\ \/ virus'.computers = virus.computers
                \/ \E c \in RT_Computers \cup {NoneVal} :
                      virus'.computers = Append(virus.computers, c)]_vars

\* C12 witness: after edits that built a split and a series, follow_path of one
\* of the routes has ended with computers visited
C12_Witness ==
    /\ fp_pc = "done"
    /\ virus.computers # <<>>
    /\ RT_Refs("RouteSplit") # {}
    /\ Len(heap) = MaxHeapObjects

\* the outer slots holding key1
DKT_SlotsOf(t, key1) ==
    {i \in 1..Len(t.array) : t.array[i] # NoneVal /\ t.array[i].key = key1}

\* C37: the delete of any stored pair ends: when it empties the group of its
\* key1, the loop reinserting the entries after the freed slot reaches an empty
\* slot within twice table_size iterations, the table full at its last capacity
\* included; after the delete every remaining key1 holds exactly one outer slot
\* and the probe of each remaining pair finds it there.
C37_DeleteCompactionEnds ==
    \A p \in DKT_StoredPairs(dkt) :
        LET pr      == linear_probe(dkt, p[1], p[2], FALSE)
            cleared == [dkt EXCEPT !.array[pr.pos1 + 1] = NoneVal]
            from    == (pr.pos1 + 1) % table_size(dkt)
            max     == 2 * table_size(dkt)
            run     == DKT_compact_counted(cleared, from, 0, max)
            r       == DKT_delitem(dkt, p[1], p[2])
            left    == DKT_SlotKeys(dkt) \ (IF p \in DKT_LastOfGroup(dkt) THEN {p[1]} ELSE {})
        IN  pr.exc = NoExc =>
            /\ r.exc = NoExc
            /\ p \in DKT_LastOfGroup(dkt) =>
                  /\ run.steps < max
                  /\ run.t.array[((from + run.steps) % table_size(dkt)) + 1] = NoneVal
                  /\ r.t.array = run.t.array
            /\ DKT_SlotKeys(r.t) = left
            /\ \A k \in left : Cardinality(DKT_SlotsOf(r.t, k)) = 1
            /\ \A q \in DKT_StoredPairs(dkt) \ {p} :
                  LET qr == linear_probe(r.t, q[1], q[2], FALSE) IN
                  qr.exc = NoExc /\ DKT_SlotsOf(r.t, q[1]) = {qr.pos1 + 1}

\* C37 witness: the table is at its last capacity with every outer slot held,
\* and the delete of the only pair of the key1 at slot 0 makes the loop go round
\* the array past the freed slot: more iterations than the table has slots
C37_Witness ==
    /\ DKT_AtLastCapacity(dkt)
    /\ \A i \in 1..Len(dkt.array) : dkt.array[i] # NoneVal
    /\ \E p \in DKT_LastOfGroup(dkt) :
          LET pr == linear_probe(dkt, p[1], p[2], FALSE) IN
          /\ pr.exc = NoExc
          /\ DKT_compact_counted([dkt EXCEPT !.array[pr.pos1 + 1] = NoneVal],
                                 (pr.pos1 + 1) % table_size(dkt), 0,
                                 2 * table_size(dkt)).steps > table_size(dkt)

\* C34: in every reachable state size_index is a valid index into TABLE_SIZES
\* and the capacity of the outer array is TABLE_SIZES[size_index], growth
\* attempts past the end of the schedule included.
C34_SizeIndexWithinSchedule ==
    /\ dkt.size_index \in 0..(Len(dkt.TABLE_SIZES) - 1)
    /\ dkt.size_index < Len(dkt.TABLE_SIZES) =>
          table_size(dkt) = dkt.TABLE_SIZES[dkt.size_index + 1]

\* a is b with some of its elements left out, the others in the order of b
RECURSIVE IsSubsequence(_, _)
IsSubsequence(a, b) ==
    IF a = <<>> THEN TRUE
    ELSE IF b = <<>> THEN FALSE
    ELSE IF Head(a) = Head(b) THEN IsSubsequence(Tail(a), Tail(b))
    ELSE IsSubsequence(a, Tail(b))

\* the computers of the stores waiting on the stack, the top of the stack first
RECURSIVE FP_ComputersOfStack(_)
FP_ComputersOfStack(stack) ==
    IF stack = <<>> THEN <<>>
    ELSE add_all_computers(Head(stack)) \o FP_ComputersOfStack(Tail(stack))

\* C36: for every route and every class of virus, the computers visited by
\* follow_path are, in their order, a subsequence of add_all_computers() of the
\* route, and no occurrence is visited twice: while the traversal runs, the
\* computers visited followed by those of the store to visit next and of the
\* stores waiting on the stack are such a subsequence as well.
C36_VisitedIsSubsequenceOfAll ==
    /\ IsSubsequence(virus.computers, add_all_computers(route.store))
    /\ Len(virus.computers) <= Len(add_all_computers(route.store))
    /\ fp_pc = "loop" =>
          IsSubsequence(virus.computers \o add_all_computers(temp_store)
                            \o FP_ComputersOfStack(temp_stack),
                        add_all_computers(route.store))

\* C36 witness: a traversal has ended having taken the bottom branch of a split:
\* it visited the bottom and the following computers and left the top one out
C36_Witness ==
    /\ fp_pc = "done"
    /\ fp_last.made /\ fp_last.decision = "BOTTOM"
    /\ route.store.kind = "RouteSplit"
    /\ Len(virus.computers) >= 2
    /\ Len(virus.computers) < Len(add_all_computers(route.store))
    /\ virus.computers[1] # add_all_computers(route.store)[1]

\* C33: RouteSeries.remove_computer on a series without computer raises
\* ValueError and leaves the series and its following route as they were; on a
\* series with a computer it returns a new series with no computer and the same
\* following route.
C33_RemoveComputerNeedsComputer ==
    \A self \in RT_Refs("RouteSeries") :
        LET r == Series_remove_computer(heap, self) IN
        IF heap[self].computer = NoneVal
        THEN /\ r.exc = "ValueError"
             /\ r.heap = heap
        ELSE /\ r.exc = NoExc
             /\ r.result > Len(heap)
             /\ \A ref \in 1..Len(heap) : r.heap[ref] = heap[ref]
             /\ r.heap[r.result].kind = "RouteSeries"
             /\ r.heap[r.result].computer = NoneVal
             /\ r.heap[r.result].following = heap[self].following
             /\ Deref(r.heap, r.heap[r.result].following) = Deref(heap, heap[self].following)

\* C33 witness: remove_computer has just raised on a series without computer,
\* itself returned by remove_computer on a series that keeps its computer
C33_Witness ==
    /\ rt_result = None
    /\ \E a \in RT_Refs("RouteSeries"), b \in RT_Refs("RouteSeries") :
          /\ heap[a].computer # NoneVal
          /\ heap[b].computer = NoneVal
          /\ heap[b].following = heap[a].following

\* ------------------------------------------------------------------------
\* Specifications
\* ------------------------------------------------------------------------
\* The objects are independent of one another: each is explored under its own
\* specification (SpecDKT, SpecDKTFull, SpecIHT, SpecCM, SpecFollow, SpecRoute), whose
\* actions leave the other objects as constructed.  Spec interleaves the calls on
\* all of them.
Init == DKT_Init /\ IHT_Init /\ CM_Init /\ CO_Init /\ FP_Init /\ RT_Init

SpecDKT == Init /\ [][DKT_Next]_vars

InitFull == DKT_Full_Init /\ IHT_Init /\ CM_Init /\ CO_Init /\ FP_Init /\ RT_Init

SpecDKTFull == InitFull /\ [][DKT_Next]_vars

InitDefault == DKT_Default_Init /\ IHT_Init /\ CM_Init /\ CO_Init /\ FP_Init /\ RT_Init

SpecDKTDefault == InitDefault /\ [][DKT_Default_Next]_vars

SpecIHT == Init /\ [][IHT_Next]_vars

SpecCM == Init /\ [][CM_Next]_vars

SpecCO == Init /\ [][CO_Next]_vars

InitFollow == DKT_Init /\ IHT_Init /\ CM_Init /\ CO_Init /\ FP_InitAny /\ RT_Init

SpecFollow == InitFollow /\ [][FP_Next]_vars

InitRiskAverse == DKT_Init /\ IHT_Init /\ CM_Init /\ CO_Init /\ FP_InitRiskAverse /\ RT_Init

SpecRiskAverse == InitRiskAverse /\ [][FP_Next]_vars

SpecRoute == Init /\ [][RT_Next]_vars

Next == DKT_Next \/ IHT_Next \/ CM_Next \/ CO_Next \/ RT_Next

Spec == Init /\ [][Next]_vars

====
